---------------------------- MODULE Spec2Model ----------------------------
(***************************************************************************)
(* A model of the mesh readers of stl-to-nec: the whole-file reader        *)
(* STLParser (src/src/stl_parser.cpp), the streaming reader                *)
(* MemoryManager::STLStreamProcessor and the chunk loop                    *)
(* MemoryEfficientSTLParser::processSTLFile (src/src/memory_manager.cpp).  *)
(*                                                                         *)
(* A mesh file is described by what the readers look at:                   *)
(*   - a binary file by its size in bytes, the 32-bit little-endian count  *)
(*     field at offset 80, whether its 80-byte header starts with the word *)
(*     "solid", and the 50-byte records that follow the count field;       *)
(*   - a text file by its lines; every line ends with a newline.           *)
(* A vertex (three coordinates) is one number; a triangle is a triple of   *)
(* vertices.  A value the C++ code reads without having written it is      *)
(* indeterminate: the model lets it be any value of Indet.                 *)
(***************************************************************************)
EXTENDS Integers, Sequences, FiniteSets, TLC

\* ------------------------------------------------------------------ bounds

\* Largest number of facet blocks of a generated text file.
MaxFacets == 2

\* Largest number of whole 50-byte records of a generated binary file.
MaxRecords == 2

\* --------------------------------------------------- constants of the code

\* Bytes of the binary header that precede the count field.
HeaderBytes == 80

\* Bytes of the count field.
CountBytes == 4

\* Smallest binary file: header and count field.
MinBinarySize == 84

\* Bytes of one binary record: normal, three vertices, attribute.
RecordBytes == 50

\* Bytes of one float.
FloatBytes == 4

\* Bytes of a record that are read: the normal and the three vertices.
RecordDataBytes == 3 * FloatBytes + 3 * (3 * FloatBytes)

\* uint32_t is kept as two 16-bit halves: 2^32 itself is no TLC integer.
Half == 2 ^ 16

\* ------------------------------------------------------------------ files

\* Values an indeterminate vertex may take: one that no file holds (0) and
\* one that files do hold (1).
Indet == {0, 1}

\* The k-th triangle of a generated mesh, k = 1, 2, ...
MeshTri(k) == << 3 * k - 2, 3 * k - 1, 3 * k >>

\* A line of a text file: its first word, whether three numbers follow it,
\* and the vertex those numbers denote.
Line(kw) == [kw |-> kw, num |-> FALSE, val |-> 0]

VertexLine(v) == [kw |-> "vertex", num |-> TRUE, val |-> v]

\* "vertex a b c": the keyword with coordinates that are not numbers.
BadVertexLine == [kw |-> "vertex", num |-> FALSE, val |-> 0]

\* "vertx 1 2 3": numeric coordinates after a word that is not "vertex".
WrongKeywordLine(v) == [kw |-> "vertx", num |-> TRUE, val |-> v]

FacetBlock(k) ==
    << Line("facet"), Line("outer"),
       VertexLine(MeshTri(k)[1]), VertexLine(MeshTri(k)[2]), VertexLine(MeshTri(k)[3]),
       Line("endloop"), Line("endfacet") >>

RECURSIVE FacetBlocks(_)
FacetBlocks(n) == IF n = 0 THEN << >> ELSE FacetBlocks(n - 1) \o FacetBlock(n)

\* The lines of a well-formed text file of n facets.
WellFormedLines(n) == << Line("solid") >> \o FacetBlocks(n) \o << Line("endsolid") >>

DeleteAt(s, i) == SubSeq(s, 1, i - 1) \o SubSeq(s, i + 1, Len(s))

InsertAt(s, i, e) == SubSeq(s, 1, i - 1) \o << e >> \o SubSeq(s, i, Len(s))

ReplaceAt(s, i, e) == [s EXCEPT ![i] = e]

\* Well-formed text and every single-line damage of it below the header
\* line: a line missing, an extra vertex line, a vertex line with a wrong
\* keyword or with coordinates that are not numbers.
TextLineSeqs ==
    LET wf == { WellFormedLines(n) : n \in 0 .. MaxFacets }
    IN  wf
        \cup UNION { { DeleteAt(s, i) : i \in 2 .. Len(s) } : s \in wf }
        \cup UNION { { InsertAt(s, i, VertexLine(9)) : i \in 2 .. Len(s) } : s \in wf }
        \cup UNION { { ReplaceAt(s, i, BadVertexLine) :
                         i \in { j \in 2 .. Len(s) : s[j].kw = "vertex" } } : s \in wf }
        \cup UNION { { ReplaceAt(s, i, WrongKeywordLine(s[i].val)) :
                         i \in { j \in 2 .. Len(s) : s[j].kw = "vertex" } } : s \in wf }

\* Nominal bytes of one text line; only text without any facet line is ever
\* measured (it is read as a binary file), and it stays below 84 bytes.
TextLineBytes == 12

TextFile(ls) ==
    [enc |-> "txt", size |-> TextLineBytes * Len(ls), count |-> 0,
     solidHdr |-> FALSE, lines |-> ls]

BinaryFile(sz, cnt, hdr) ==
    [enc |-> "bin", size |-> sz, count |-> cnt, solidHdr |-> hdr, lines |-> << >>]

\* Sizes of binary files: below the header, exactly n records, n records
\* and a part of the next one (cut inside the vertex data, cut inside the
\* two attribute bytes), and one byte more than n records.
BinarySizes ==
    {0, HeaderBytes, MinBinarySize - 1}
    \cup UNION { { MinBinarySize + RecordBytes * n,
                   MinBinarySize + RecordBytes * n + 1,
                   MinBinarySize + RecordBytes * n + RecordDataBytes - 1,
                   MinBinarySize + RecordBytes * n + RecordDataBytes } : n \in 0 .. MaxRecords }

\* The count c = 85899346, for which 50 * c = 2^32 + 4: the 32-bit product
\* wraps around to 4.
WrapCount == 2 * ((2 ^ 30 + 1) \div 25)

\* Count fields: small ones, and two whose 32-bit product with 50 wraps.
CountFields == (0 .. MaxRecords + 1) \cup {WrapCount, WrapCount + 1}

\* A binary file whose header starts with "solid" holds its whole header.
BinaryFiles ==
    { f \in { BinaryFile(sz, cnt, hdr) :
                sz \in BinarySizes, cnt \in CountFields, hdr \in BOOLEAN } :
        f.solidHdr => f.size >= HeaderBytes }

\* A path that cannot be opened.
NoFile == [enc |-> "none", size |-> 0, count |-> 0, solidHdr |-> FALSE, lines |-> << >>]

Files == BinaryFiles \cup { TextFile(ls) : ls \in TextLineSeqs }

Paths == Files \cup {NoFile}

\* The word "facet" occurs in a line: "facet normal ..." and "endfacet".
LineHasFacet(l) == l.kw \in {"facet", "endfacet"}

\* The word "solid" occurs in a line: "solid name" and "endsolid name".
LineHasSolid(l) == l.kw \in {"solid", "endsolid"}

\* Generated binary files hold the word "facet" nowhere.
ContainsFacet(f) == \E i \in 1 .. Len(f.lines) : LineHasFacet(f.lines[i])

ContainsSolid(f) ==
    \/ f.solidHdr
    \/ \E i \in 1 .. Len(f.lines) : LineHasSolid(f.lines[i])

\* Whole records a binary file holds after its count field.
WholeRecords(f) ==
    IF f.size < MinBinarySize THEN 0 ELSE (f.size - MinBinarySize) \div RecordBytes

\* size = 84 + 50 * count, in the integers.
ExactSize(f) ==
    /\ f.size >= MinBinarySize
    /\ (f.size - MinBinarySize) % RecordBytes = 0
    /\ (f.size - MinBinarySize) \div RecordBytes = f.count

\* size < 84 + 50 * count, in the integers (no wrap-around).
BelowDeclaredSize(f) ==
    f.size < MinBinarySize \/ (f.size - MinBinarySize) \div RecordBytes < f.count

\* The well-formed files and the number of triangles each holds.
WellFormedBinary(f) == f.enc = "bin" /\ ExactSize(f)

WellFormedText(f, n) == f.enc = "txt" /\ f.lines = WellFormedLines(n)

\* A file that holds a mesh: well formed, with at least one triangle.
MeshFile(f) ==
    \/ WellFormedBinary(f) /\ f.count >= 1
    \/ \E n \in 1 .. MaxFacets : WellFormedText(f, n)

\* The triangle held by the record that starts at byte offset off of a
\* binary file, as the set of values a read of its 48 data bytes can give:
\* the record's triangle when the bytes lie inside the file, anything
\* otherwise.  Of the indeterminate triangles two are followed: one that no
\* file holds and one that files do hold.
IndetTriangles == { << 0, 0, 0 >>, MeshTri(1) }

RecordAt(f, off) ==
    IF /\ off >= MinBinarySize
       /\ off + RecordDataBytes <= f.size
       /\ (off - MinBinarySize) % RecordBytes = 0
    THEN { MeshTri((off - MinBinarySize) \div RecordBytes + 1) }
    ELSE IndetTriangles

\* ------------------------------------ geometry_utils.h: Point3D, Triangle

\* Lengths are whole numbers of millimetres (the code's unit is the metre).
\* A point is the triple of its coordinates, a triangle the triple of its
\* vertices.

\* Largest point count of a sequence of points the model builds.
MaxPoints == 3

\* Largest triangle count of a mesh handed to the detector or scaled.
MaxTriangles == 2

Min(a, b) == IF a <= b THEN a ELSE b

Max(a, b) == IF a >= b THEN a ELSE b

Abs(a) == IF a >= 0 THEN a ELSE 0 - a

RECURSIVE GCD(_, _)
GCD(a, b) == IF b = 0 THEN Abs(a) ELSE GCD(b, a % b)

\* The quotient n / d of two whole numbers, d # 0, as the pair of its
\* numerator and its positive denominator in lowest terms.
Frac(n, d) ==
    LET g == GCD(n, d)
        s == IF d < 0 THEN 0 - 1 ELSE 1
    IN  << s * (n \div g), s * (d \div g) >>

\* ceil(n / d) for d > 0.
Ceil(n, d) == 0 - ((0 - n) \div d)

\* Point3D(): the origin.
Origin == << 0, 0, 0 >>

\* The square of Point3D::distance.
DistanceSquared(p, q) ==
    (p[1] - q[1]) * (p[1] - q[1]) + (p[2] - q[2]) * (p[2] - q[2])
        + (p[3] - q[3]) * (p[3] - q[3])

\* The largest r with r * r <= n, between lo and hi.
RECURSIVE RootBetween(_, _, _)
RootBetween(n, lo, hi) ==
    IF lo >= hi THEN lo
    ELSE LET mid == (lo + hi + 1) \div 2
         IN  IF mid * mid <= n THEN RootBetween(n, mid, hi)
                               ELSE RootBetween(n, lo, mid - 1)

\* std::sqrt of a whole number n < 2^31, in whole millimetres: exact when n
\* is a square, and below the root by less than one otherwise.
Root(n) == RootBetween(n, 0, 46340)

\* Point3D::distance.
Distance(p, q) == Root(DistanceSquared(p, q))

\* Triangle::center.  The triangles the model takes a centre of have
\* coordinate sums that 3 divides, so that the centre is a whole point.
TriCenter(t) ==
    << (t[1][1] + t[2][1] + t[3][1]) \div 3,
       (t[1][2] + t[2][2] + t[3][2]) \div 3,
       (t[1][3] + t[2][3] + t[3][3]) \div 3 >>

\* The vertices of a sequence of triangles, in the order the loops over
\* triangles and over triangle.vertices meet them.
RECURSIVE VerticesOf(_)
VerticesOf(tris) ==
    IF tris = << >> THEN << >>
    ELSE << tris[1][1], tris[1][2], tris[1][3] >> \o VerticesOf(Tail(tris))

\* ------------------------------------------ geometry_utils.h: BoundingBox

\* BoundingBox(): both corners are Point3D(), the origin.
EmptyBox == [min |-> Origin, max |-> Origin]

\* BoundingBox::expand.
expand(b, p) ==
    IF b.min = Origin /\ b.max = Origin
    THEN [min |-> p, max |-> p]
    ELSE [min |-> << Min(b.min[1], p[1]), Min(b.min[2], p[2]), Min(b.min[3], p[3]) >>,
          max |-> << Max(b.max[1], p[1]), Max(b.max[2], p[2]), Max(b.max[3], p[3]) >>]

\* BoundingBox::size.
BoxSize(b) ==
    << b.max[1] - b.min[1], b.max[2] - b.min[2], b.max[3] - b.min[3] >>

RECURSIVE ExpandAll(_, _)
ExpandAll(b, ps) ==
    IF ps = << >> THEN b ELSE ExpandAll(expand(b, Head(ps)), Tail(ps))

\* GeometryUtils::calculateBoundingBox.
calculateBoundingBox(tris) == ExpandAll(EmptyBox, VerticesOf(tris))

\* ------------------------------------------------------------ STLParser

VARIABLES
    triangles_,      \* STLParser::triangles_
    loaded_,         \* STLParser::loaded_
    errorMessage_,   \* STLParser::errorMessage_
    loadArg,         \* the file named by the last loadFile call
    loadRet,         \* what the last loadFile call returned: "none" before any
    readEnd,         \* one past the highest index parseBinary read in that call
    originalBoundingBox_,   \* STLParser::originalBoundingBox_
    scaleFactor_     \* STLParser::scaleFactor_, as a quotient (numerator,
                     \* denominator)

parserVars ==
    << triangles_, loaded_, errorMessage_, loadArg, loadRet, readEnd,
       originalBoundingBox_, scaleFactor_ >>

\* STLParser::isASCII: both words occur somewhere in the content.
isASCII(f) == ContainsSolid(f) /\ ContainsFacet(f)

\* The vertex parsed from line i: "vertexStream >> vertex >> x >> y >> z"
\* checks neither the keyword nor the success of the extractions; past the
\* last line getline fails and the line parsed is empty.
VertexRead(lines, i) ==
    IF i <= Len(lines) /\ lines[i].num THEN { lines[i].val } ELSE Indet

\* The loop of STLParser::parseASCII from line i on, with tris collected so
\* far: the set of triangle sequences it can end with.
RECURSIVE ParseASCIILoop(_, _, _)
ParseASCIILoop(lines, i, tris) ==
    IF i > Len(lines) THEN { tris }
    ELSE IF lines[i].kw = "facet"
    THEN UNION { ParseASCIILoop(lines, i + 7, Append(tris, << a, b, c >>)) :
                   a \in VertexRead(lines, i + 2),
                   b \in VertexRead(lines, i + 3),
                   c \in VertexRead(lines, i + 4) }
    ELSE ParseASCIILoop(lines, i + 1, tris)

\* STLParser::parseASCII: the header line is skipped, whatever it holds.
parseASCII(f) ==
    { [ok |-> t # << >>, err |-> "", tris |-> t, readEnd |-> 0] :
        t \in ParseASCIILoop(f.lines, 2, << >>) }

\* size_t expectedSize = 84 + triangleCount * 50, the product and the sum
\* taken in 32 bits, as its two 16-bit halves << high, low >>.
ExpectedSize(count) ==
    LET p    == (count % Half) * RecordBytes
        plo  == p % Half
        phi  == ((count \div Half) * RecordBytes + p \div Half) % Half
        s    == plo + MinBinarySize
    IN  << (phi + s \div Half) % Half, s % Half >>

\* data.size() < expectedSize
SizeBelowExpected(size, count) ==
    LET e == ExpectedSize(count)
    IN  \/ size \div Half < e[1]
        \/ size \div Half = e[1] /\ size % Half < e[2]

\* A record loop that only asks whether the read position has reached the
\* end of the buffer, not whether a whole record is left.
RecordOutOfBufferAtEnd(offset, size) == offset >= size

\* The bounds check at the head of the record loop of parseBinary.
RecordOutOfBuffer(offset, size) == offset + RecordBytes > size

\* The record loop of STLParser::parseBinary at iteration i with the read
\* position offset: the set of outcomes it can end with.
RECURSIVE ParseBinaryLoop(_, _, _, _, _)
ParseBinaryLoop(f, i, offset, tris, rd) ==
    IF i >= f.count
    THEN { [ok |-> tris # << >>, err |-> "", tris |-> tris, readEnd |-> rd] }
    ELSE IF RecordOutOfBuffer(offset, f.size)
    THEN { [ok |-> FALSE, err |-> "Unexpected end of file", tris |-> tris, readEnd |-> rd] }
    ELSE UNION { ParseBinaryLoop(f, i + 1, offset + RecordBytes, Append(tris, t),
                                 offset + RecordDataBytes) :
                   t \in RecordAt(f, offset) }

\* STLParser::parseBinary
parseBinary(f) ==
    IF f.size < MinBinarySize
    THEN { [ok |-> FALSE, err |-> "File too small to be a valid binary STL",
            tris |-> << >>, readEnd |-> 0] }
    ELSE IF HeaderBytes + CountBytes > f.size
    THEN { [ok |-> FALSE, err |-> "Invalid binary STL file", tris |-> << >>, readEnd |-> 0] }
    ELSE IF SizeBelowExpected(f.size, f.count)
    THEN { [ok |-> FALSE, err |-> "File size doesn't match triangle count",
            tris |-> << >>, readEnd |-> HeaderBytes + CountBytes] }
    ELSE ParseBinaryLoop(f, 0, HeaderBytes + CountBytes, << >>, HeaderBytes + CountBytes)

\* STLParser::loadFile: the outcomes of one call on path f.
LoadOutcomes(f) ==
    IF f = NoFile
    THEN { [ok |-> FALSE, err |-> "Could not open file", tris |-> << >>, readEnd |-> 0] }
    ELSE IF isASCII(f) THEN parseASCII(f) ELSE parseBinary(f)

\* For the bounding box loadFile computes, the file model gives the vertex
\* numbered v the coordinates (v, 0, 0).
OnXAxis(tris) ==
    [i \in 1 .. Len(tris) |->
        << << tris[i][1], 0, 0 >>, << tris[i][2], 0, 0 >>, << tris[i][3], 0, 0 >> >>]

\* bool STLParser::loadFile(filename)
loadFile(f) ==
    /\ \E o \in LoadOutcomes(f) :
         /\ triangles_' = o.tris
         /\ loaded_' = o.ok
         /\ errorMessage_' = o.err
         /\ loadRet' = IF o.ok THEN "true" ELSE "false"
         /\ readEnd' = o.readEnd
         /\ originalBoundingBox_' =
                IF o.ok THEN calculateBoundingBox(OnXAxis(o.tris))
                        ELSE originalBoundingBox_
    /\ loadArg' = f
    /\ UNCHANGED scaleFactor_

ParserInit ==
    /\ triangles_ = << >>
    /\ loaded_ = FALSE
    /\ errorMessage_ = ""
    /\ loadArg = NoFile
    /\ loadRet = "none"
    /\ readEnd = 0
    /\ originalBoundingBox_ = EmptyBox
    /\ scaleFactor_ = << 1, 1 >>

\* --------------------------------- MemoryManager::STLStreamProcessor

\* Largest number of direct getNextChunk calls followed on one reader.
MaxCalls == 4

VARIABLES
    sp,          \* the STLStreamProcessor: its fields, its file position (the
                 \* byte offset in binary mode, the next line in text mode)
                 \* and whether file_ is still good()
    lastChunk,   \* the chunk the last getNextChunk call returned
    delivered,   \* the chunks returned so far, concatenated in order
    calls        \* direct getNextChunk calls made so far

streamVars == << sp, lastChunk, delivered, calls >>

\* chunkSize = 1024 * 1024, the default of the constructor.
DefaultChunkSize == 1024 * 1024

\* Chunk sizes: too small for one triangle in either mode, one or a few
\* triangles per chunk, and the default.
ChunkSizes == {100, 200, 1000, 2000, DefaultChunkSize}

\* Values an indeterminate count (a uint32_t never written) may take.
IndetCounts == {0, MaxRecords}

\* Files a streaming reader is opened on: the count fields that wrap around
\* in 32 bits are left to STLParser, a reader would return that many
\* triangles.
StreamFiles == { f \in Files : f.count <= MaxRecords + 1 }

NoStream ==
    [open |-> FALSE, filename_ |-> NoFile, chunkSize_ |-> 0, totalTriangles_ |-> 0,
     processedTriangles_ |-> 0, isBinary_ |-> FALSE, pos |-> 0, good |-> FALSE]

\* The first line of the file holds "solid" (std::getline, then find).
FirstLineHasSolid(f) ==
    \/ f.solidHdr
    \/ Len(f.lines) >= 1 /\ LineHasSolid(f.lines[1])

\* Occurrences of "facet" in the whole file (buffer.find in a loop).
FacetOccurrences(f) == Cardinality({ i \in 1 .. Len(f.lines) : LineHasFacet(f.lines[i]) })

\* The readers the constructor can build on an openable file f: in binary
\* mode the count field is read at offset 80, and is indeterminate when the
\* file ends before offset 84 (the read fails and file_ stays failed).
Constructed(f, cs) ==
    IF ~FirstLineHasSolid(f)
    THEN { [open |-> TRUE, filename_ |-> f, chunkSize_ |-> cs, totalTriangles_ |-> n,
            processedTriangles_ |-> 0, isBinary_ |-> TRUE,
            pos |-> HeaderBytes + CountBytes, good |-> f.size >= HeaderBytes + CountBytes] :
             n \in IF f.size >= HeaderBytes + CountBytes THEN { f.count } ELSE IndetCounts }
    ELSE { [open |-> TRUE, filename_ |-> f, chunkSize_ |-> cs,
            totalTriangles_ |-> FacetOccurrences(f),
            processedTriangles_ |-> 0, isBinary_ |-> FALSE, pos |-> 1, good |-> TRUE] }

\* bool hasMoreTriangles() const
hasMoreTriangles(r) == r.processedTriangles_ < r.totalTriangles_

\* double getProgress() const, rounded down to a whole per cent.
getProgress(r) ==
    IF r.totalTriangles_ = 0 THEN 0
    ELSE (r.processedTriangles_ * 100) \div r.totalTriangles_

\* trianglesToRead of readBinaryChunk.
BinaryTrianglesToRead(r) ==
    Min(r.chunkSize_ \div (RecordBytes * FloatBytes),
        r.totalTriangles_ - r.processedTriangles_)

\* trianglesToRead of readASCIIChunk.
ASCIIBytesPerTriangle == 1000

ASCIITrianglesToRead(r) ==
    Min(r.chunkSize_ \div ASCIIBytesPerTriangle,
        r.totalTriangles_ - r.processedTriangles_)

\* The loop of readBinaryChunk at iteration i: the set of << chunk, pos,
\* good >> it can end with.  A record is read whole when its 48 data bytes
\* lie inside the file; any other read fails, leaves the floats
\* indeterminate and file_ failed for good.
RECURSIVE BinaryChunkLoop(_, _, _, _, _, _)
BinaryChunkLoop(f, i, n, pos, good, chunk) ==
    IF i >= n THEN { << chunk, pos, good >> }
    ELSE IF good /\ pos + RecordDataBytes <= f.size
    THEN UNION { BinaryChunkLoop(f, i + 1, n, pos + RecordBytes, TRUE, Append(chunk, t)) :
                   t \in RecordAt(f, pos) }
    ELSE UNION { BinaryChunkLoop(f, i + 1, n, pos, FALSE, Append(chunk, t)) :
                   t \in IndetTriangles }

readBinaryChunk(r) ==
    BinaryChunkLoop(r.filename_, 0, BinaryTrianglesToRead(r), r.pos, r.good, << >>)

\* The loop of readASCIIChunk at iteration i: every iteration takes one
\* line, and a line that holds "facet" takes six more and gives a triangle.
RECURSIVE ASCIIChunkLoop(_, _, _, _, _, _)
ASCIIChunkLoop(lines, i, n, pos, good, chunk) ==
    IF i >= n THEN { << chunk, pos, good >> }
    ELSE IF ~good \/ pos > Len(lines) THEN { << chunk, pos, FALSE >> }
    ELSE IF LineHasFacet(lines[pos])
    THEN UNION { ASCIIChunkLoop(lines, i + 1, n, Min(pos + 7, Len(lines) + 1),
                                pos + 6 <= Len(lines), Append(chunk, << a, b, c >>)) :
                   a \in VertexRead(lines, pos + 2),
                   b \in VertexRead(lines, pos + 3),
                   c \in VertexRead(lines, pos + 4) }
    ELSE ASCIIChunkLoop(lines, i + 1, n, pos + 1, TRUE, chunk)

readASCIIChunk(r) ==
    ASCIIChunkLoop(r.filename_.lines, 0, ASCIITrianglesToRead(r), r.pos, r.good, << >>)

\* A getNextChunk that forgets to count the chunk it returns.
getNextChunkUncounted(r) ==
    IF ~hasMoreTriangles(r) THEN { << << >>, r >> }
    ELSE { << o[1], [r EXCEPT !.pos = o[2], !.good = o[3]] >> :
             o \in IF r.isBinary_ THEN readBinaryChunk(r) ELSE readASCIIChunk(r) }

\* std::vector<Triangle> getNextChunk(): the set of << chunk, reader >> one
\* call on reader r can give.
getNextChunk(r) ==
    IF ~hasMoreTriangles(r) THEN { << << >>, r >> }
    ELSE { << o[1], [r EXCEPT !.processedTriangles_ = @ + Len(o[1]),
                              !.pos = o[2], !.good = o[3]] >> :
             o \in IF r.isBinary_ THEN readBinaryChunk(r) ELSE readASCIIChunk(r) }

\* STLStreamProcessor(filename, chunkSize) on an openable file.
NewStream(f, cs) ==
    /\ ~sp.open
    /\ sp' \in Constructed(f, cs)
    /\ lastChunk' = << >>
    /\ delivered' = << >>
    /\ calls' = 0

\* A direct call of getNextChunk by the owner of the reader.
GetNextChunkCall ==
    /\ sp.open
    /\ calls < MaxCalls
    /\ \E o \in getNextChunk(sp) :
         /\ lastChunk' = o[1]
         /\ sp' = o[2]
         /\ delivered' = delivered \o o[1]
    /\ calls' = calls + 1

StreamInit ==
    /\ sp = NoStream
    /\ lastChunk = << >>
    /\ delivered = << >>
    /\ calls = 0

\* ------------------- MemoryManager, MemoryEfficientSTLParser::processSTLFile

VARIABLES
    memoryLimitMB_,        \* MemoryManager::memoryLimitMB_
    currentMemoryUsage_,   \* MemoryManager::currentMemoryUsage_
    peakMemoryUsage_,      \* MemoryManager::peakMemoryUsage_
    maxrss,                \* ru_maxrss of the process, in kilobytes
    procPc,                \* where processSTLFile stands: "idle" before any
                           \* call, "head" at the loop condition, "check" at
                           \* the memory check, "returned"
    procRet,               \* what the last processSTLFile call returned
    stopCause,             \* why it returned: "complete", "memory", "error"
    outcomes               \* for each cause, the values returned for it so far

processVars ==
    << memoryLimitMB_, currentMemoryUsage_, peakMemoryUsage_, maxrss,
       procPc, procRet, stopCause, outcomes >>

\* memoryLimitMB_(1024) of the constructor.
DefaultMemoryLimitMB == 1024

KiB == 1024

\* Values of ru_maxrss: far below the ceiling, exactly at it, just above it.
RssValues == { 4 * KiB, DefaultMemoryLimitMB * KiB, DefaultMemoryLimitMB * KiB + 1 }

\* size_t calculateMemoryUsage() const: ru_maxrss * 1024.
calculateMemoryUsage == maxrss * KiB

\* bool isMemoryLimitExceeded() const, on the usage just measured.
isMemoryLimitExceeded(usage) == usage > memoryLimitMB_ * KiB * KiB

Causes == {"complete", "memory", "error"}

Returned(ret, cause) ==
    /\ procPc' = "returned"
    /\ procRet' = ret
    /\ stopCause' = cause
    /\ outcomes' = [outcomes EXCEPT ![cause] = @ \cup {ret}]

\* processSTLFile(filename, processor, chunkSize) up to the loop: the reader
\* is built by createStreamProcessor(filename), with the default chunk size
\* whatever chunkSize is; a file that cannot be opened makes the constructor
\* throw, and the catch clause returns false.
ProcessStart(f) ==
    /\ procPc \in {"idle", "returned"}
    /\ lastChunk' = << >>
    /\ delivered' = << >>
    /\ IF f = NoFile
       THEN /\ sp' = NoStream
            /\ Returned("false", "error")
       ELSE /\ sp' \in Constructed(f, DefaultChunkSize)
            /\ procPc' = "head"
            /\ procRet' = "none"
            /\ stopCause' = "none"
            /\ outcomes' = outcomes
    /\ UNCHANGED << calls, memoryLimitMB_, currentMemoryUsage_, peakMemoryUsage_, maxrss >>

\* The loop condition and, when it holds, getNextChunk and the callback
\* (which receives every chunk that is not empty).
LoopHead ==
    /\ procPc = "head"
    /\ IF ~hasMoreTriangles(sp)
       THEN /\ Returned("true", "complete")
            /\ UNCHANGED << sp, lastChunk, delivered >>
       ELSE /\ \E o \in getNextChunk(sp) :
                 /\ lastChunk' = o[1]
                 /\ sp' = o[2]
                 /\ delivered' = delivered \o o[1]
            /\ procPc' = "check"
            /\ UNCHANGED << procRet, stopCause, outcomes >>
    /\ UNCHANGED << calls, memoryLimitMB_, currentMemoryUsage_, peakMemoryUsage_, maxrss >>

\* if (memoryManager_.isMemoryLimitExceeded()) return false;
MemoryCheck ==
    /\ procPc = "check"
    /\ currentMemoryUsage_' = calculateMemoryUsage
    /\ IF isMemoryLimitExceeded(calculateMemoryUsage)
       THEN Returned("false", "memory")
       ELSE /\ procPc' = "head"
            /\ UNCHANGED << procRet, stopCause, outcomes >>
    /\ UNCHANGED << streamVars, memoryLimitMB_, peakMemoryUsage_, maxrss >>

\* The process grows: ru_maxrss is a high-water mark and never falls.
RssGrows ==
    /\ \E r \in RssValues : r > maxrss /\ maxrss' = r
    /\ UNCHANGED << streamVars, memoryLimitMB_, currentMemoryUsage_, peakMemoryUsage_,
                    procPc, procRet, stopCause, outcomes >>

ProcessInit ==
    /\ memoryLimitMB_ = DefaultMemoryLimitMB
    /\ currentMemoryUsage_ = 0
    /\ peakMemoryUsage_ = 0
    /\ maxrss = 4 * KiB
    /\ procPc = "idle"
    /\ procRet = "none"
    /\ stopCause = "none"
    /\ outcomes = [c \in Causes |-> {}]

\* ---------------------------------------------- BoundingBox under expansion

VARIABLES
    bbox,        \* a BoundingBox, default-constructed and then expanded
    boxPoints    \* the points it was expanded with, in order

boxVars == << bbox, boxPoints >>

\* Points a box is expanded with.
BoxCoords == {0 - 1, 0, 1}
BoxPointSet == { << x, y, z >> : x \in BoxCoords, y \in BoxCoords, z \in {0, 1} }

\* bbox.expand(p)
ExpandCall(p) ==
    /\ Len(boxPoints) < MaxPoints
    /\ bbox' = expand(bbox, p)
    /\ boxPoints' = Append(boxPoints, p)

BoxInit ==
    /\ bbox = EmptyBox
    /\ boxPoints = << >>

\* ------------------- geometry_utils.cpp and antenna_detector.cpp, helpers

\* The smallest and the second smallest of the three extents: dimensions[0]
\* and dimensions[1] after std::sort.
Smallest(s) == Min(s[1], Min(s[2], s[3]))

Largest(s) == Max(s[1], Max(s[2], s[3]))

SecondSmallest(s) == s[1] + s[2] + s[3] - Smallest(s) - Largest(s)

\* GeometryUtils::isWireLike.
isWireLike(tris, maxDiameter) ==
    IF tris = << >> THEN FALSE
    ELSE LET size == BoxSize(calculateBoundingBox(tris))
         IN  Smallest(size) <= maxDiameter /\ SecondSmallest(size) <= maxDiameter

\* path[i].distance(simplified.back()) > tolerance, decided on the squares.
DistanceAbove(p, q, tolerance) ==
    tolerance < 0 \/ DistanceSquared(p, q) > tolerance * tolerance

\* The loop of GeometryUtils::simplifyWirePath from index i (counted from 1)
\* on, simplified being what was kept so far.
RECURSIVE SimplifyWirePathLoop(_, _, _, _)
SimplifyWirePathLoop(path, tolerance, i, simplified) ==
    IF i >= Len(path) THEN simplified
    ELSE SimplifyWirePathLoop(path, tolerance, i + 1,
             IF DistanceAbove(path[i], simplified[Len(simplified)], tolerance)
             THEN Append(simplified, path[i])
             ELSE simplified)

\* GeometryUtils::simplifyWirePath.
simplifyWirePath(path, tolerance) ==
    IF Len(path) <= 2 THEN path
    ELSE Append(SimplifyWirePathLoop(path, tolerance, 2, << path[1] >>),
                path[Len(path)])

\* The loop of simplifyPath comparing each point with the point before it
\* in the input instead of the last point kept.
RECURSIVE SimplifyAgainstPreviousLoop(_, _, _, _)
SimplifyAgainstPreviousLoop(path, tolerance, i, simplified) ==
    IF i >= Len(path) THEN simplified
    ELSE SimplifyAgainstPreviousLoop(path, tolerance, i + 1,
             IF DistanceAbove(path[i], path[i - 1], tolerance)
             THEN Append(simplified, path[i])
             ELSE simplified)

simplifyPathAgainstPrevious(path, tolerance) ==
    IF Len(path) <= 2 THEN path
    ELSE Append(SimplifyAgainstPreviousLoop(path, tolerance, 2, << path[1] >>),
                path[Len(path)])

\* The loop of AntennaDetector::simplifyPath.
RECURSIVE SimplifyPathLoop(_, _, _, _)
SimplifyPathLoop(path, tolerance, i, simplified) ==
    IF i >= Len(path) THEN simplified
    ELSE SimplifyPathLoop(path, tolerance, i + 1,
             IF DistanceAbove(path[i], simplified[Len(simplified)], tolerance)
             THEN Append(simplified, path[i])
             ELSE simplified)

\* simplifyPath with the last point tested like the points before it: it
\* is dropped when it lies within the tolerance of the last point kept.
simplifyPathTestingLast(path, tolerance) ==
    IF Len(path) <= 2 THEN path
    ELSE SimplifyPathLoop(Append(path, path[Len(path)]), tolerance, 2, << path[1] >>)

\* AntennaDetector::simplifyPath.
simplifyPath(path, tolerance) ==
    IF Len(path) <= 2 THEN path
    ELSE Append(SimplifyPathLoop(path, tolerance, 2, << path[1] >>),
                path[Len(path)])

\* The 1 m plate (0,0,0), (1,0,0), (1,1,0) and the same plate moved off
\* the origin, two faces of a 1 m cube, and three thin slivers.
OriginPlate == << << 0, 0, 0 >>, << 1000, 0, 0 >>, << 1000, 1000, 0 >> >>
MovedPlate == << << 1, 0, 0 >>, << 1000, 0, 0 >>, << 1000, 1000, 0 >> >>
CubeFaceAtOrigin == << << 0, 0, 0 >>, << 0, 1000, 0 >>, << 0, 1000, 1000 >> >>
CubeFaceOpposite == << << 1000, 0, 0 >>, << 1000, 1000, 0 >>, << 1000, 1000, 1000 >> >>
SliverX == << << 3, 0, 0 >>, << 6, 0, 0 >>, << 9, 0, 0 >> >>
SliverY == << << 0, 15, 3 >>, << 0, 21, 3 >>, << 0, 36, 3 >> >>
SliverFlat == << << 6, 5, 0 >>, << 14, 5, 0 >>, << 10, 14, 0 >> >>

WireLikeTriangles ==
    { OriginPlate, MovedPlate, CubeFaceAtOrigin, CubeFaceOpposite,
      SliverX, SliverY, SliverFlat }

\* Sequences of 0 to n elements of S.
SeqsUpTo(S, n) == UNION { [1 .. k -> S] : k \in 0 .. n }

\* AntennaDetector's maxWireDiameter_(0.01), GeometryUtils::isWireLike's
\* default maxDiameter: 0.01 m.
DefaultMaxWireDiameter == 10

\* The default tolerance of simplifyPath and simplifyWirePath: 1e-3 m.
DefaultTolerance == 1

MaxDiameters == {0, 8, DefaultMaxWireDiameter, 1000}

\* Largest length of a path handed to the simplification.
MaxPathLen == 4

PathPoints == { << 0, 0, 0 >>, << 1, 0, 0 >>, << 2, 0, 0 >>, << 1, 1, 0 >>, << 3, 0, 0 >> }

Tolerances == {0 - 1, 0, DefaultTolerance, 2}

VARIABLE geomCall   \* the last call of a GeometryUtils function: its name,
                    \* its arguments and what it returned

NoCall == [op |-> "none"]

\* GeometryUtils::isWireLike(tris, maxDiameter)
IsWireLikeCall(tris, maxDiameter) ==
    geomCall' = [op |-> "isWireLike", tris |-> tris, maxDiameter |-> maxDiameter,
                 ret |-> isWireLike(tris, maxDiameter)]

\* GeometryUtils::simplifyWirePath(path, tolerance) and, on the same
\* arguments, AntennaDetector::simplifyPath(path, tolerance)
SimplifyCall(path, tolerance) ==
    geomCall' = [op |-> "simplify", path |-> path, tolerance |-> tolerance,
                 ret |-> simplifyWirePath(path, tolerance),
                 retDetector |-> simplifyPath(path, tolerance)]

GeomInit == geomCall = NoCall

\* ----------------------------------------------------- AntennaDetector

VARIABLES
    antenna_,           \* AntennaDetector::antenna_
    maxWireDiameter_,   \* AntennaDetector::maxWireDiameter_
    minWireLength_,     \* AntennaDetector::minWireLength_
    maxWireLength_,     \* AntennaDetector::maxWireLength_
    detectArg           \* the last detectAntenna call: whether there was
                        \* one, its triangles and the three parameters
                        \* of the detector when it was made

detectVars ==
    << antenna_, maxWireDiameter_, minWireLength_, maxWireLength_, detectArg >>

\* minWireLength_(0.1) and maxWireLength_(10.0) of the constructor.
DefaultMinWireLength == 100
DefaultMaxWireLength == 10000

\* The largest radius isReasonableAntennaRadius accepts: 0.01 m.
MaxAntennaRadius == 10

\* AntennaWire().  The radius is a quotient: a pair numerator, denominator.
NoAntenna ==
    [triangles |-> << >>, path |-> << >>, radius |-> << 0, 1 >>, length |-> 0,
     startPoint |-> Origin, endPoint |-> Origin, isDetected |-> FALSE]

\* AntennaDetector::findWireLikeComponents: every triangle is a component.
findWireLikeComponents(tris) == [i \in 1 .. Len(tris) |-> << tris[i] >>]

\* AntennaDetector::isWireLikeComponent with maxWireDiameter_ = d.
isWireLikeComponent(component, d) ==
    IF component = << >> THEN FALSE
    ELSE LET size == BoxSize(calculateBoundingBox(component))
         IN  Smallest(size) <= d /\ SecondSmallest(size) <= d

\* AntennaDetector::extractWirePath.
extractWirePath(component) ==
    IF component = << >> THEN << >>
    ELSE simplifyPath([i \in 1 .. Len(component) |-> TriCenter(component[i])],
                      DefaultTolerance)

\* AntennaDetector::calculateWireLength.
RECURSIVE calculateWireLength(_)
calculateWireLength(path) ==
    IF Len(path) < 2 THEN 0
    ELSE Distance(path[1], path[2]) + calculateWireLength(Tail(path))

RECURSIVE SumPoints(_)
SumPoints(ps) ==
    IF ps = << >> THEN Origin
    ELSE LET r == SumPoints(Tail(ps))
         IN  << ps[1][1] + r[1], ps[1][2] + r[2], ps[1][3] + r[3] >>

RECURSIVE SumDistances(_, _)
SumDistances(c, ps) ==
    IF ps = << >> THEN 0 ELSE Distance(c, Head(ps)) + SumDistances(c, Tail(ps))

\* AntennaDetector::calculateWireRadius: the mean distance of the vertices
\* from their centre, as a quotient.
calculateWireRadius(component) ==
    IF component = << >> THEN << 0, 1 >>
    ELSE LET vs     == VerticesOf(component)
             sum    == SumPoints(vs)
             center == << sum[1] \div Len(vs), sum[2] \div Len(vs), sum[3] \div Len(vs) >>
         IN  Frac(SumDistances(center, vs), Len(vs))

\* The test of the length against the upper limit alone.
isReasonableAntennaLengthNoMin(length, minLen, maxLen) == length <= maxLen

\* AntennaDetector::isReasonableAntennaLength
isReasonableAntennaLength(length, minLen, maxLen) ==
    length >= minLen /\ length <= maxLen

\* AntennaDetector::isReasonableAntennaRadius.
isReasonableAntennaRadius(radius) ==
    radius[1] > 0 /\ radius[1] <= MaxAntennaRadius * radius[2]

\* The antenna_ the body of the loop of detectAntenna builds from an
\* accepted component.
AntennaFrom(component) ==
    LET path == extractWirePath(component)
    IN  [triangles |-> component, path |-> path,
         radius |-> calculateWireRadius(component),
         length |-> calculateWireLength(path),
         startPoint |-> IF path # << >> THEN path[1] ELSE Origin,
         endPoint |-> IF path # << >> THEN path[Len(path)] ELSE Origin,
         isDetected |-> TRUE]

\* The tests of the loop of detectAntenna on one component.
Accepted(component, d, minLen, maxLen) ==
    /\ isWireLikeComponent(component, d)
    /\ isReasonableAntennaLength(calculateWireLength(extractWirePath(component)),
                                 minLen, maxLen)
    /\ isReasonableAntennaRadius(calculateWireRadius(component))

\* The loop of detectAntenna without its break: a later accepted component
\* replaces an earlier one.
RECURSIVE DetectLoopNoBreak(_, _, _, _, _, _)
DetectLoopNoBreak(components, i, d, minLen, maxLen, found) ==
    IF i > Len(components) THEN found
    ELSE DetectLoopNoBreak(components, i + 1, d, minLen, maxLen,
             IF Accepted(components[i], d, minLen, maxLen)
             THEN AntennaFrom(components[i]) ELSE found)

detectAntennaNoBreak(tris, d, minLen, maxLen) ==
    IF tris = << >> THEN NoAntenna
    ELSE DetectLoopNoBreak(findWireLikeComponents(tris), 1, d, minLen, maxLen, NoAntenna)

\* The loop of detectAntenna from component i on.
RECURSIVE DetectLoop(_, _, _, _, _)
DetectLoop(components, i, d, minLen, maxLen) ==
    IF i > Len(components) THEN NoAntenna
    ELSE IF Accepted(components[i], d, minLen, maxLen)
         THEN AntennaFrom(components[i])
         ELSE DetectLoop(components, i + 1, d, minLen, maxLen)

\* detectAntenna without the assignment antenna_ = AntennaWire() it starts
\* with: a call that accepts nothing leaves the stored wire as it was.
detectAntennaKeeping(tris, d, minLen, maxLen) ==
    IF tris = << >> THEN antenna_
    ELSE LET found == DetectLoop(findWireLikeComponents(tris), 1, d, minLen, maxLen)
         IN  IF found.isDetected THEN found ELSE antenna_

\* AntennaDetector::detectAntenna: the value of antenna_ it leaves and
\* returns.
detectAntenna(tris, d, minLen, maxLen) ==
    IF tris = << >> THEN NoAntenna
    ELSE DetectLoop(findWireLikeComponents(tris), 1, d, minLen, maxLen)

\* Triangles handed to the detector: three slivers, a sliver of mean radius
\* above 0.01 m, a triangle shrunk to one point and a plate at the origin.
SliverThick == << << 3, 0, 0 >>, << 60, 0, 0 >>, << 120, 0, 0 >> >>
PointTriangle == << << 1, 1, 1 >>, << 1, 1, 1 >>, << 1, 1, 1 >> >>
OriginPlate999 == << << 0, 0, 0 >>, << 999, 0, 0 >>, << 999, 999, 0 >> >>

DetectTriangles ==
    { SliverX, SliverY, SliverFlat, SliverThick, PointTriangle, OriginPlate999 }

DetectMeshes == SeqsUpTo(DetectTriangles, MaxTriangles)

\* Meshes of the detections that follow the first one on a detector.
RedetectMeshes == SeqsUpTo(DetectTriangles, 1)

\* Values the parameters of the detector are set to.
WireDiameters == {5, DefaultMaxWireDiameter}
MinWireLengths == {0, DefaultMinWireLength}
MaxWireLengths == {0 - 1, DefaultMaxWireLength}

\* detector.detectAntenna(tris)
DetectCall(tris) ==
    /\ antenna_' = detectAntenna(tris, maxWireDiameter_, minWireLength_, maxWireLength_)
    /\ detectArg' = [called |-> TRUE, triangles |-> tris,
                     maxWireDiameter |-> maxWireDiameter_,
                     minWireLength |-> minWireLength_,
                     maxWireLength |-> maxWireLength_,
                     before |-> antenna_]
    /\ UNCHANGED << maxWireDiameter_, minWireLength_, maxWireLength_ >>

\* detector.setMaxWireDiameter(d)
setMaxWireDiameter(d) ==
    /\ maxWireDiameter_' = d
    /\ UNCHANGED << antenna_, minWireLength_, maxWireLength_, detectArg >>

\* detector.setMinWireLength(l)
setMinWireLength(l) ==
    /\ minWireLength_' = l
    /\ UNCHANGED << antenna_, maxWireDiameter_, maxWireLength_, detectArg >>

\* detector.setMaxWireLength(l)
setMaxWireLength(l) ==
    /\ maxWireLength_' = l
    /\ UNCHANGED << antenna_, maxWireDiameter_, minWireLength_, detectArg >>

DetectInit ==
    /\ antenna_ = NoAntenna
    /\ maxWireDiameter_ = DefaultMaxWireDiameter
    /\ minWireLength_ = DefaultMinWireLength
    /\ maxWireLength_ = DefaultMaxWireLength
    /\ detectArg = [called |-> FALSE, triangles |-> << >>,
                    maxWireDiameter |-> DefaultMaxWireDiameter,
                    minWireLength |-> DefaultMinWireLength,
                    maxWireLength |-> DefaultMaxWireLength,
                    before |-> NoAntenna]

\* ------------------------------------------------- STLParser: scaling

\* Scaling is followed on meshes of points: triangles_ then holds triangles
\* of points, as after loadFile of a well-formed file with those vertices.
\* The scale factor is a quotient: a pair numerator, denominator.

VARIABLE scaleCall   \* the last scaleToLength call: which overload ("none"
                     \* when the last call was a load), its arguments, and
                     \* triangles_, scaleFactor_ and originalBoundingBox_
                     \* before it

\* Largest coordinate, in absolute value, of a scaled mesh the model follows.
CoordLimit == 24

\* vertex.x *= scaleFactor_ on the three coordinates of a vertex.
ScalePoint(p, f) ==
    << (p[1] * f[1]) \div f[2], (p[2] * f[1]) \div f[2], (p[3] * f[1]) \div f[2] >>

\* applyScaling without vertex.z *= scaleFactor_.
ScalePointXY(p, f) == << (p[1] * f[1]) \div f[2], (p[2] * f[1]) \div f[2], p[3] >>

applyScalingXY(tris, f) ==
    IF f = << 1, 1 >> THEN tris
    ELSE [i \in 1 .. Len(tris) |->
             << ScalePointXY(tris[i][1], f), ScalePointXY(tris[i][2], f),
                ScalePointXY(tris[i][3], f) >>]

\* STLParser::applyScaling: the triangles it leaves.
applyScaling(tris, f) ==
    IF f = << 1, 1 >> THEN tris
    ELSE [i \in 1 .. Len(tris) |->
             << ScalePoint(tris[i][1], f), ScalePoint(tris[i][2], f),
                ScalePoint(tris[i][3], f) >>]

\* STLParser::getBoundingBox
getBoundingBox(tris) == calculateBoundingBox(tris)

\* What a scaleToLength call leaves: triangles_, scaleFactor_, and whether
\* it went through applyScaling.
Unscaled(tris, sf) == [tris |-> tris, sf |-> sf, applied |-> FALSE]

ScaledBy(tris, target, extent) ==
    [tris |-> applyScaling(tris, Frac(target, extent)),
     sf |-> Frac(target, extent), applied |-> TRUE]

\* STLParser::scaleToLength(targetLength)
scaleToLength(tris, sf, targetLength) ==
    IF tris = << >> THEN Unscaled(tris, sf)
    ELSE LET maxDimension == Largest(BoxSize(getBoundingBox(tris)))
         IN  IF maxDimension > 0
             THEN ScaledBy(tris, targetLength, maxDimension)
             ELSE Unscaled(tris, sf)

\* scaleToLength(targetLength, axis) taking the x extent for an axis that
\* is none of "x", "y", "z".
scaleToLengthAxisDefaultX(tris, sf, targetLength, axis) ==
    IF tris = << >> THEN Unscaled(tris, sf)
    ELSE LET size == BoxSize(getBoundingBox(tris))
             currentLength == IF axis = "y" THEN size[2]
                              ELSE IF axis = "z" THEN size[3] ELSE size[1]
         IN  IF currentLength > 0
             THEN ScaledBy(tris, targetLength, currentLength)
             ELSE Unscaled(tris, sf)

\* STLParser::scaleToLength(targetLength, axis)
scaleToLengthAxis(tris, sf, targetLength, axis) ==
    IF tris = << >> THEN Unscaled(tris, sf)
    ELSE IF axis \notin {"x", "y", "z"} THEN Unscaled(tris, sf)
    ELSE LET size == BoxSize(getBoundingBox(tris))
             currentLength == IF axis = "x" THEN size[1]
                              ELSE IF axis = "y" THEN size[2] ELSE size[3]
         IN  IF currentLength > 0
             THEN ScaledBy(tris, targetLength, currentLength)
             ELSE Unscaled(tris, sf)

\* The scaled coordinates are whole numbers within CoordLimit: the scaling
\* calls the model follows are those whose outcome it can hold.
OnGrid(tris, f) ==
    \A i \in 1 .. Len(tris) : \A j \in 1 .. 3 : \A k \in 1 .. 3 :
        /\ (tris[i][j][k] * f[1]) % f[2] = 0
        /\ Abs(tris[i][j][k] * f[1]) <= CoordLimit * f[2]

Followed(tris, o) == o.applied => OnGrid(tris, o.sf)

\* Triangles of the meshes that are scaled.  The first two have the origin
\* as their first vertex; the third and fourth are shrunk to one point.
OriginFirst == << << 0, 0, 0 >>, << 2, 0, 0 >>, << 4, 0, 0 >> >>
OriginThenPoint == << << 0, 0, 0 >>, << 2, 0, 0 >>, << 2, 0, 0 >> >>
AtOrigin == << << 0, 0, 0 >>, << 0, 0, 0 >>, << 0, 0, 0 >> >>
AtPoint == << << 2, 2, 2 >>, << 2, 2, 2 >>, << 2, 2, 2 >> >>
OffOrigin == << << 1, 0, 0 >>, << 3, 0, 0 >>, << 3, 2, 0 >> >>
FlatInX == << << 1, 1, 0 >>, << 1, 3, 4 >>, << 1, 1, 2 >> >>

ScaleTriangles == { OriginFirst, OriginThenPoint, AtOrigin, AtPoint, OffOrigin, FlatInX }

ScaleMeshes == SeqsUpTo(ScaleTriangles, MaxTriangles)

TargetLengths == {1, 2, 4}

Axes == {"x", "y", "z", "w"}

NoScaleCall ==
    [kind |-> "none", target |-> 0, axis |-> "", before |-> << >>,
     beforeFactor |-> << 1, 1 >>, beforeOriginal |-> EmptyBox]

\* loadFile on a well-formed file whose triangles are those of mesh m (it
\* fails, as parseASCII and parseBinary do, when m has no triangle).
LoadMesh(m) ==
    /\ triangles_' = m
    /\ loaded_' = (m # << >>)
    /\ errorMessage_' = ""
    /\ loadRet' = IF m # << >> THEN "true" ELSE "false"
    /\ loadArg' = BinaryFile(MinBinarySize + RecordBytes * Len(m), Len(m), FALSE)
    /\ readEnd' = IF m = << >> THEN MinBinarySize
                  ELSE MinBinarySize + RecordBytes * Len(m) - (RecordBytes - RecordDataBytes)
    /\ originalBoundingBox_' =
           IF m # << >> THEN calculateBoundingBox(m) ELSE originalBoundingBox_
    /\ scaleCall' = NoScaleCall
    /\ UNCHANGED scaleFactor_

\* parser.scaleToLength(targetLength)
ScaleToLengthCall(targetLength) ==
    LET o == scaleToLength(triangles_, scaleFactor_, targetLength)
    IN  /\ Followed(triangles_, o)
        /\ triangles_' = o.tris
        /\ scaleFactor_' = o.sf
        /\ scaleCall' = [kind |-> "length", target |-> targetLength, axis |-> "",
                         before |-> triangles_, beforeFactor |-> scaleFactor_,
                         beforeOriginal |-> originalBoundingBox_]
        /\ UNCHANGED << loaded_, errorMessage_, loadArg, loadRet, readEnd,
                        originalBoundingBox_ >>

\* parser.scaleToLength(targetLength, axis)
ScaleToLengthAxisCall(targetLength, axis) ==
    LET o == scaleToLengthAxis(triangles_, scaleFactor_, targetLength, axis)
    IN  /\ Followed(triangles_, o)
        /\ triangles_' = o.tris
        /\ scaleFactor_' = o.sf
        /\ scaleCall' = [kind |-> "axis", target |-> targetLength, axis |-> axis,
                         before |-> triangles_, beforeFactor |-> scaleFactor_,
                         beforeOriginal |-> originalBoundingBox_]
        /\ UNCHANGED << loaded_, errorMessage_, loadArg, loadRet, readEnd,
                        originalBoundingBox_ >>

\* -------------------------------------------------- FrequencyCalculator

\* A frequency is a whole number of units of 100 Hz: 1 MHz is 10000.  The
\* wavelength is held in centimetres and a grid spacing or a wire length in
\* millimetres, each as a quotient (numerator, denominator): in these units
\* wavelength_ = SPEED_OF_LIGHT / (frequencyMHz_ * 1e6) is the quotient of
\* SPEED_OF_LIGHT by the frequency, both below 2^31.

VARIABLES
    frequencyMHz_,   \* FrequencyCalculator::frequencyMHz_
    wavelength_,     \* FrequencyCalculator::wavelength_
    segCall          \* the last segment-count call: its name, the wire
                     \* length, the spacing and the count returned

freqVars == << frequencyMHz_, wavelength_, segCall >>

SPEED_OF_LIGHT == 299792458

\* 1 MHz in units of 100 Hz.
MHz == 10000

\* FrequencyCalculator::calculateWavelength without its else branch: a
\* frequency that is not positive leaves the wavelength as it was.
calculateWavelengthNoElse(frequencyMHz, wavelength) ==
    IF frequencyMHz > 0 THEN Frac(SPEED_OF_LIGHT, frequencyMHz) ELSE wavelength

\* FrequencyCalculator::calculateWavelength: the wavelength_ it leaves, from
\* frequencyMHz_ and the wavelength_ it finds.
calculateWavelength(frequencyMHz, wavelength) ==
    IF frequencyMHz > 0 THEN Frac(SPEED_OF_LIGHT, frequencyMHz) ELSE << 0, 1 >>

\* FrequencyCalculator::isValidFrequency
isValidFrequency(frequencyMHz) == frequencyMHz > 0

\* getHighAccuracyGridSpacing: wavelength_ / 20.0 (metres), in millimetres.
getHighAccuracyGridSpacing(wavelength) == Frac(wavelength[1], 2 * wavelength[2])

\* getStandardAccuracyGridSpacing: wavelength_ / 10.0 (metres), which in
\* millimetres is the number the wavelength is in centimetres.
getStandardAccuracyGridSpacing(wavelength) == Frac(wavelength[1], wavelength[2])

\* getRecommendedGridSpacingCm: the spacing in centimetres, 5.
getRecommendedGridSpacingCm == << 5, 1 >>

\* getRecommendedGridSpacing: 0.05 m.
getRecommendedGridSpacing == << 50, 1 >>

\* calculateSegments with std::floor in the place of std::ceil.
calculateSegmentsFloor(wireLength, gridSpacing) ==
    IF gridSpacing[1] <= 0 THEN 1
    ELSE (wireLength[1] * gridSpacing[2]) \div (wireLength[2] * gridSpacing[1])

\* FrequencyCalculator::calculateSegments
calculateSegments(wireLength, gridSpacing) ==
    IF gridSpacing[1] <= 0 THEN 1
    ELSE Ceil(wireLength[1] * gridSpacing[2], wireLength[2] * gridSpacing[1])

\* FrequencyCalculator::calculateSegmentsRecommended
calculateSegmentsRecommended(wireLength) ==
    calculateSegments(wireLength, getRecommendedGridSpacing)

\* NECGenerator::calculateSegments: the count of 4.4, and at least 1.
NECGenerator_calculateSegments(length, gridSpacing) ==
    Max(1, calculateSegments(length, gridSpacing))

\* getBandName testing the VHF range before the HF range.
getBandNameVHFFirst(f) ==
    IF f >= 30 * MHz /\ f <= 300 * MHz THEN "VHF (30-300 MHz)"
    ELSE IF f >= 3 * MHz /\ f <= 30 * MHz THEN "HF (3-30 MHz)"
    ELSE IF f >= 300 * MHz /\ f <= 3000 * MHz THEN "UHF (300-3000 MHz)"
    ELSE IF f >= 3000 * MHz /\ f <= 30000 * MHz THEN "SHF (3-30 GHz)"
    ELSE IF f >= MHz \div 10 /\ f < 3 * MHz THEN "MF (0.1-3 MHz)"
    ELSE IF f >= MHz \div 100 /\ f < MHz \div 10 THEN "LF (0.01-0.1 MHz)"
    ELSE IF f >= MHz \div 1000 /\ f < MHz \div 100 THEN "VLF (0.001-0.01 MHz)"
    ELSE "Unknown Band"

\* FrequencyCalculator::getBandName
getBandName(f) ==
    IF f >= 3 * MHz /\ f <= 30 * MHz THEN "HF (3-30 MHz)"
    ELSE IF f >= 30 * MHz /\ f <= 300 * MHz THEN "VHF (30-300 MHz)"
    ELSE IF f >= 300 * MHz /\ f <= 3000 * MHz THEN "UHF (300-3000 MHz)"
    ELSE IF f >= 3000 * MHz /\ f <= 30000 * MHz THEN "SHF (3-30 GHz)"
    ELSE IF f >= MHz \div 10 /\ f < 3 * MHz THEN "MF (0.1-3 MHz)"
    ELSE IF f >= MHz \div 100 /\ f < MHz \div 10 THEN "LF (0.01-0.1 MHz)"
    ELSE IF f >= MHz \div 1000 /\ f < MHz \div 100 THEN "VLF (0.001-0.01 MHz)"
    ELSE "Unknown Band"

\* FrequencyCalculator::getFrequencyBand
getFrequencyBand == getBandName(frequencyMHz_)

\* The limits of the bands, in MHz: 0.001, 0.01, 0.1, 3, 30, 300, 3000, 30000.
BandLimits ==
    { MHz \div 1000, MHz \div 100, MHz \div 10, 3 * MHz, 30 * MHz, 300 * MHz,
      3000 * MHz, 30000 * MHz }

\* Frequencies that are set: every limit, the frequencies 100 Hz below and
\* above it, 146 MHz, 0 and -1 MHz.
Frequencies ==
    { b + d : b \in BandLimits, d \in {0 - 1, 0, 1} } \cup { 146 * MHz, 0, 0 - MHz }

\* Wire lengths and grid spacings of the segment-count calls, in mm.
WireLengths ==
    { << l, 1 >> : l \in {0, 10, 30, 49, 50, 51, 100, 1000} } \cup { << 1, 2 >>, << 301, 2 >> }

GridSpacings ==
    { << g, 1 >> : g \in {0 - 50, 0, 30, 50, 1000} } \cup { << 100, 3 >> }

NoSegCall == [op |-> "none", length |-> << 0, 1 >>, spacing |-> << 0, 1 >>, ret |-> 0]

\* calc.setFrequency(frequencyMHz)
setFrequency(frequencyMHz) ==
    /\ frequencyMHz_' = frequencyMHz
    /\ wavelength_' = calculateWavelength(frequencyMHz, wavelength_)
    /\ UNCHANGED segCall

\* calc.calculateSegments(wireLength, gridSpacing)
CalculateSegmentsCall(wireLength, gridSpacing) ==
    /\ segCall' = [op |-> "calculateSegments", length |-> wireLength,
                   spacing |-> gridSpacing,
                   ret |-> calculateSegments(wireLength, gridSpacing)]
    /\ UNCHANGED << frequencyMHz_, wavelength_ >>

\* calc.calculateSegmentsRecommended(wireLength)
CalculateSegmentsRecommendedCall(wireLength) ==
    /\ segCall' = [op |-> "calculateSegmentsRecommended", length |-> wireLength,
                   spacing |-> getRecommendedGridSpacing,
                   ret |-> calculateSegmentsRecommended(wireLength)]
    /\ UNCHANGED << frequencyMHz_, wavelength_ >>

\* The generator's segment count of a wire, with the recommended spacing of
\* its frequency model.
GeneratorSegmentsCall(length) ==
    /\ segCall' = [op |-> "NECGenerator::calculateSegments", length |-> length,
                   spacing |-> getRecommendedGridSpacing,
                   ret |-> NECGenerator_calculateSegments(length, getRecommendedGridSpacing)]
    /\ UNCHANGED << frequencyMHz_, wavelength_ >>

FreqInit ==
    /\ frequencyMHz_ = 0
    /\ wavelength_ = << 0, 1 >>
    /\ segCall = NoSegCall

\* --------------------------------------------------------- GroundModeler
\*
\* A double is held as a decimal << m, e >> for m * 10^e; the values of the
\* model have at most four digits in m.  A rendered number is the record of
\* the characters the stream writes: its notation, the digits and the
\* exponent, so that "4.50e+00" is scientific with 2 decimals, digits 450 and
\* exponent 0, and "81.0" is fixed with 1 decimal, digits 810, exponent -1.

VARIABLES
    groundCall,   \* the last call on the GroundModeler: its name, its
                  \* arguments and what it returned
    coutFormat    \* the formatting state of std::cout, which the print
                  \* functions leave changed

RECURSIVE Pow10(_)
Pow10(n) == IF n <= 0 THEN 1 ELSE 10 * Pow10(n - 1)

RECURSIVE DigitCount(_)
DigitCount(m) == IF m < 10 THEN 1 ELSE 1 + DigitCount(m \div 10)

\* m / d rounded to the nearest integer (no value of the model is a tie).
RoundDiv(m, d) == (2 * m + d) \div (2 * d)

\* v <= 10^k and v >= 10^k for a decimal v.
AtMostPow10(v, k) ==
    IF v[1] <= 0 THEN TRUE
    ELSE IF v[2] > k THEN FALSE
    ELSE IF k - v[2] > 9 THEN TRUE
    ELSE v[1] <= Pow10(k - v[2])

AtLeastPow10(v, k) ==
    IF v[1] <= 0 THEN FALSE
    ELSE IF v[2] >= k THEN TRUE
    ELSE IF k - v[2] > 9 THEN FALSE
    ELSE v[1] >= Pow10(k - v[2])

\* The formatting state of a stream: std::ios_base::floatfield and the
\* precision.  A std::stringstream starts as FreshStream; std::cout keeps
\* what the last manipulators written to it have set.
FreshStream == [floatfield |-> "default", precision |-> 6]

\* ss << std::scientific, ss << std::fixed, ss << std::setprecision(p)
Scientific(stream) == [stream EXCEPT !.floatfield = "scientific"]

Fixed(stream) == [stream EXCEPT !.floatfield = "fixed"]

SetPrecision(stream, p) == [stream EXCEPT !.precision = p]

\* v in scientific notation with p decimals: p + 1 digits and the exponent
\* of the first one.
RenderScientific(p, v) ==
    LET m == Abs(v[1])
        d == DigitCount(m)
        r == IF d > p + 1 THEN RoundDiv(m, Pow10(d - p - 1)) ELSE m * Pow10(p + 1 - d)
    IN  IF m = 0
        THEN [notation |-> "scientific", decimals |-> p, negative |-> FALSE,
              digits |-> 0, exponent |-> 0]
        ELSE IF r = Pow10(p + 1)
        THEN [notation |-> "scientific", decimals |-> p, negative |-> v[1] < 0,
              digits |-> Pow10(p), exponent |-> v[2] + d]
        ELSE [notation |-> "scientific", decimals |-> p, negative |-> v[1] < 0,
              digits |-> r, exponent |-> v[2] + d - 1]

\* v in fixed notation with p decimals: the digits count units of 10^-p.
RenderFixed(p, v) ==
    LET m == Abs(v[1])
        r == IF v[2] + p >= 0 THEN m * Pow10(v[2] + p)
             ELSE RoundDiv(m, Pow10(0 - p - v[2]))
    IN  [notation |-> "fixed", decimals |-> p, negative |-> v[1] < 0 /\ r > 0,
         digits |-> r, exponent |-> 0 - p]

RECURSIVE StripZeros(_)
StripZeros(v) ==
    IF v[1] = 0 THEN << 0, 0 >>
    ELSE IF v[1] % 10 = 0 THEN StripZeros(<< v[1] \div 10, v[2] + 1 >>)
    ELSE v

\* v as the default notation writes it: up to `precision` significant
\* digits, which every value of the model has at precision 6, without
\* trailing zeros.
RenderGeneral(v) ==
    LET s == StripZeros(v)
    IN  [notation |-> "default", decimals |-> 0, negative |-> s[1] < 0,
         digits |-> Abs(s[1]), exponent |-> s[2]]

\* stream << v for a double v
RenderOn(stream, v) ==
    CASE stream.floatfield = "scientific" -> RenderScientific(stream.precision, v)
      [] stream.floatfield = "fixed" -> RenderFixed(stream.precision, v)
      [] OTHER -> RenderGeneral(v)

NoNumber ==
    [notation |-> "none", decimals |-> 0, negative |-> FALSE, digits |-> 0, exponent |-> 0]

\* The number a rendered number reads as.
ValueOf(t) ==
    CASE t.notation = "scientific" ->
            StripZeros(<< IF t.negative THEN 0 - t.digits ELSE t.digits,
                          t.exponent - t.decimals >>)
      [] OTHER ->
            StripZeros(<< IF t.negative THEN 0 - t.digits ELSE t.digits, t.exponent >>)

\* enum class GroundType
GroundTypes ==
    {"PERFECT_GROUND", "SOMMERFELD_NORTON", "FINITE_GROUND_SCREEN", "REAL_GROUND",
     "WATER_GROUND"}

\* GroundParameters::GroundParameters
DefaultGroundParameters ==
    [type |-> "PERFECT_GROUND", conductivity |-> << 0, 0 >>,
     relativePermittivity |-> << 1, 0 >>, screenRadius |-> << 0, 0 >>,
     description |-> ""]

\* A const WaterProperties*: nullptr, or the properties pointed to.
NoWater ==
    [null |-> TRUE, conductivity |-> << 0, 0 >>, relativePermittivity |-> << 0, 0 >>,
     type |-> ""]

\* WaterDatabase::WaterDatabase
FreshWater ==
    [null |-> FALSE, conductivity |-> << 1, 0 - 3 >>, relativePermittivity |-> << 81, 0 >>,
     type |-> "Fresh Water"]

SaltWater ==
    [null |-> FALSE, conductivity |-> << 45, 0 - 1 >>, relativePermittivity |-> << 81, 0 >>,
     type |-> "Salt Water"]

\* One line of the text a generator returns.
DirectiveLine(directive, kind, permittivity, conductivity, radius, reason) ==
    [directive |-> directive, kind |-> kind, permittivity |-> permittivity,
     conductivity |-> conductivity, radius |-> radius, reason |-> reason]

\* "CM " + reason + "\n"
CommentLine(reason) == DirectiveLine("CM", 0, NoNumber, NoNumber, NoNumber, reason)

\* GroundModeler::isValidConductivity
isValidConductivity(conductivity) ==
    conductivity[1] >= 0 /\ AtMostPow10(conductivity, 8)

\* GroundModeler::isValidPermittivity
isValidPermittivity(permittivity) ==
    AtLeastPow10(permittivity, 0) /\ AtMostPow10(permittivity, 2)

\* GroundModeler::validateGroundParameters
validateGroundParameters(params) ==
    IF params.type = "PERFECT_GROUND" THEN TRUE
    ELSE IF ~isValidConductivity(params.conductivity) THEN FALSE
    ELSE IF ~isValidPermittivity(params.relativePermittivity) THEN FALSE
    ELSE IF params.type = "FINITE_GROUND_SCREEN" /\ params.screenRadius[1] <= 0 THEN FALSE
    ELSE TRUE

\* GroundModeler::getValidationError
getValidationError(params) ==
    IF params.type = "PERFECT_GROUND" THEN ""
    ELSE IF ~isValidConductivity(params.conductivity) THEN "Invalid conductivity value"
    ELSE IF ~isValidPermittivity(params.relativePermittivity)
         THEN "Invalid permittivity value"
    ELSE IF params.type = "FINITE_GROUND_SCREEN" /\ params.screenRadius[1] <= 0
         THEN "Invalid screen radius"
    ELSE ""

\* GroundModeler::formatGroundConductivity
formatGroundConductivity(conductivity) ==
    RenderOn(SetPrecision(Scientific(FreshStream), 2), conductivity)

\* GroundModeler::formatGroundPermittivity
formatGroundPermittivity(permittivity) ==
    RenderOn(SetPrecision(Fixed(FreshStream), 1), permittivity)

\* GroundModeler::generatePerfectGround: "GN -1\n"
generatePerfectGround == << DirectiveLine("GN", 0 - 1, NoNumber, NoNumber, NoNumber, "") >>

\* "GN <kind> 0 0 0 <permittivity> <conductivity>\n"
GroundLine(kind, params) ==
    DirectiveLine("GN", kind, formatGroundPermittivity(params.relativePermittivity),
         formatGroundConductivity(params.conductivity), NoNumber, "")

\* GroundModeler::generateSommerfeldNortonGround
generateSommerfeldNortonGround(params) == << GroundLine(1, params) >>

\* The finite ground screen with the radius written in the notation
\* std::cout is in, as a stream shared with the print functions would.
generateFiniteGroundScreenOnCout(params) ==
    << GroundLine(0, params),
       DirectiveLine("GD", 0, NoNumber, NoNumber,
                     RenderOn(coutFormat, params.screenRadius), "") >>

\* GroundModeler::generateFiniteGroundScreen
generateFiniteGroundScreen(params) ==
    << GroundLine(0, params),
       DirectiveLine("GD", 0, NoNumber, NoNumber,
                     RenderOn(FreshStream, params.screenRadius), "") >>

\* GroundModeler::generateRealGround
generateRealGround(params) == << GroundLine(2, params) >>

\* GroundModeler::generateWaterGround: water is not read.
generateWaterGround(params, water) == << GroundLine(2, params) >>

\* GroundModeler::generateGroundCommand(params)
generateGroundCommand(params) ==
    IF ~validateGroundParameters(params)
    THEN << CommentLine(getValidationError(params)) >>
    ELSE CASE params.type = "PERFECT_GROUND" -> generatePerfectGround
           [] params.type = "SOMMERFELD_NORTON" -> generateSommerfeldNortonGround(params)
           [] params.type = "FINITE_GROUND_SCREEN" -> generateFiniteGroundScreen(params)
           [] params.type = "REAL_GROUND" -> generateRealGround(params)
           [] params.type = "WATER_GROUND" -> generateWaterGround(params, NoWater)
           [] OTHER -> generatePerfectGround

\* GroundModeler::generateGroundCommand(params, water)
generateGroundCommandWater(params, water) ==
    IF params.type = "WATER_GROUND" /\ ~water.null
    THEN generateWaterGround(params, water)
    ELSE generateGroundCommand(params)

\* GroundModeler::getGroundParameters(type)
getGroundParameters(type) ==
    CASE type = "PERFECT_GROUND" ->
            [DefaultGroundParameters EXCEPT
                !.type = type, !.description = "Perfect ground (infinite conductivity)"]
      [] type = "SOMMERFELD_NORTON" ->
            [DefaultGroundParameters EXCEPT
                !.type = type, !.conductivity = << 1, 0 - 2 >>,
                !.relativePermittivity = << 13, 0 >>,
                !.description = "Sommerfeld-Norton ground (average soil)"]
      [] type = "FINITE_GROUND_SCREEN" ->
            [DefaultGroundParameters EXCEPT
                !.type = type, !.conductivity = << 1, 7 >>,
                !.relativePermittivity = << 1, 0 >>, !.screenRadius = << 10, 0 >>,
                !.description = "Finite ground screen (copper)"]
      [] type = "REAL_GROUND" ->
            [DefaultGroundParameters EXCEPT
                !.type = type, !.conductivity = << 1, 0 - 2 >>,
                !.relativePermittivity = << 13, 0 >>,
                !.description = "Real ground (average soil)"]
      [] type = "WATER_GROUND" ->
            [DefaultGroundParameters EXCEPT
                !.type = type, !.conductivity = << 45, 0 - 1 >>,
                !.relativePermittivity = << 81, 0 >>,
                !.description = "Water ground (salt water)"]
      [] OTHER -> [DefaultGroundParameters EXCEPT !.type = type]

\* "Water ground (" + water->type + ")"
WaterDescription(water) ==
    CASE water.type = "Fresh Water" -> "Water ground (Fresh Water)"
      [] water.type = "Salt Water" -> "Water ground (Salt Water)"
      [] OTHER -> "Water ground (Measured)"

\* GroundModeler::getGroundParameters(type, water)
getGroundParametersWater(type, water) ==
    LET params == getGroundParameters(type)
    IN  IF type = "WATER_GROUND" /\ ~water.null
        THEN [params EXCEPT !.conductivity = water.conductivity,
                            !.relativePermittivity = water.relativePermittivity,
                            !.description = WaterDescription(water)]
        ELSE params

\* The conductivities, permittivities and screen radii of the parameters a
\* caller passes: the defaults of every type, both limits of each range and
\* a value on each side of them, and 4.567 and 81.26, which rendering rounds.
Conductivities ==
    { << 0 - 1, 0 >>, << 0, 0 >>, << 1, 0 - 3 >>, << 1, 0 - 2 >>, << 45, 0 - 1 >>,
      << 4567, 0 - 3 >>, << 1, 7 >>, << 1, 8 >>, << 2, 8 >> }

Permittivities ==
    { << 9, 0 - 1 >>, << 1, 0 >>, << 13, 0 >>, << 81, 0 >>, << 8126, 0 - 2 >>,
      << 100, 0 >>, << 101, 0 >> }

ScreenRadii == { << 0 - 1, 0 >>, << 0, 0 >>, << 10, 0 >> }

GroundParameterSet ==
    { [type |-> t, conductivity |-> c, relativePermittivity |-> p, screenRadius |-> r,
       description |-> ""] :
        t \in GroundTypes, c \in Conductivities, p \in Permittivities, r \in ScreenRadii }

\* Water measured by the caller: 4.567 S/m, 81.26.
MeasuredWater ==
    [null |-> FALSE, conductivity |-> << 4567, 0 - 3 >>,
     relativePermittivity |-> << 8126, 0 - 2 >>, type |-> "Measured"]

\* Water whose measured conductivity is -1 S/m.
BadWater ==
    [null |-> FALSE, conductivity |-> << 0 - 1, 0 >>,
     relativePermittivity |-> << 81, 0 >>, type |-> "Measured"]

Waters == {NoWater, FreshWater, SaltWater, MeasuredWater, BadWater}

NoGroundCall ==
    [op |-> "none", params |-> DefaultGroundParameters, water |-> NoWater,
     text |-> << >>, ret |-> DefaultGroundParameters]

\* modeler.generateGroundCommand(params)
GenerateGroundCommandCall(params) ==
    groundCall' = [op |-> "generateGroundCommand", params |-> params, water |-> NoWater,
                   text |-> generateGroundCommand(params),
                   ret |-> DefaultGroundParameters]

\* modeler.generateGroundCommand(params, water)
GenerateGroundCommandWaterCall(params, water) ==
    groundCall' = [op |-> "generateGroundCommandWater", params |-> params,
                   water |-> water, text |-> generateGroundCommandWater(params, water),
                   ret |-> DefaultGroundParameters]

\* modeler.getGroundParameters(type, water)
GetGroundParametersCall(type, water) ==
    groundCall' = [op |-> "getGroundParameters",
                   params |-> [DefaultGroundParameters EXCEPT !.type = type],
                   water |-> water, text |-> << >>,
                   ret |-> getGroundParametersWater(type, water)]

GroundInit == groundCall = NoGroundCall

\* ----------------------------------- NECGenerator, EZGenerator, std::cout

\* Largest number of generation calls of one behaviour.
MaxGenerations == 3

VARIABLES
    genCount,     \* the number of generation calls so far
    genFirst,     \* an earlier generation call: its arguments, what it
                  \* returned and its number
    genLast       \* the most recent generation call

genVars == << coutFormat, genCount, genFirst, genLast >>

\* WaterDatabase::printWaterTypes: the last manipulators are std::fixed and
\* std::setprecision(1).
printWaterTypes(stream) == SetPrecision(Fixed(SetPrecision(Scientific(stream), 1)), 1)

\* AntennaDetector::printAntennaInfo: returns before any number is written
\* when no antenna is detected; the last manipulators are std::fixed and
\* std::setprecision(3).
printAntennaInfo(stream, isDetected) ==
    IF ~isDetected THEN stream
    ELSE SetPrecision(Fixed(SetPrecision(Fixed(stream), 1)), 3)

\* The ground section of a document: water ground with the water passed to
\* the generator, perfect ground without one.
GeneratorGround(water) ==
    IF water.null THEN generateGroundCommand(getGroundParameters("PERFECT_GROUND"))
    ELSE generateGroundCommandWater(getGroundParametersWater("WATER_GROUND", water), water)

NoDocument ==
    [format |-> "none", antenna |-> FALSE, wires |-> 0, excitation |-> FALSE,
     ground |-> << >>, frequency |-> NoNumber]

\* The sections of a document: the antenna wire if there is one, one wire
\* per structural triangle, the excitation of the antenna, the ground
\* directive and the frequency directive.
Document(format, triangles, frequencyMHz, hasAntenna, water) ==
    [format |-> format, antenna |-> hasAntenna, wires |-> Len(triangles),
     excitation |-> hasAntenna, ground |-> GeneratorGround(water),
     frequency |-> RenderOn(SetPrecision(Fixed(FreshStream), 3), frequencyMHz)]

\* A structure-only document: no antenna, no excitation.
StructureDocument(format, triangles) ==
    [format |-> format, antenna |-> FALSE, wires |-> Len(triangles),
     excitation |-> FALSE, ground |-> GeneratorGround(NoWater), frequency |-> NoNumber]

\* NECGenerator::generateNEC
generateNEC(triangles, frequencyMHz, hasAntenna, water) ==
    Document("NEC", triangles, frequencyMHz, hasAntenna, water)

\* NECGenerator::generateNECStructureOnly
generateNECStructureOnly(triangles) == StructureDocument("NEC", triangles)

\* EZGenerator::generateEZ
generateEZ(triangles, frequencyMHz, hasAntenna, water) ==
    Document("EZ", triangles, frequencyMHz, hasAntenna, water)

\* EZGenerator::generateEZStructureOnly
generateEZStructureOnly(triangles) == StructureDocument("EZ", triangles)

\* The arguments of the generation calls.
GenParameters ==
    { getGroundParameters("FINITE_GROUND_SCREEN"), getGroundParameters("WATER_GROUND"),
      [getGroundParameters("FINITE_GROUND_SCREEN") EXCEPT !.screenRadius = << 25, 0 - 1 >>] }

GenWaters == {NoWater, FreshWater}

GenMeshes == { << >>, << SliverX >> }

GenFrequencies == { << 146, 0 >>, << 1455, 0 - 1 >> }

NoGeneration ==
    [op |-> "none", params |-> DefaultGroundParameters, water |-> NoWater,
     triangles |-> << >>, frequencyMHz |-> << 0, 0 >>, hasAntenna |-> FALSE,
     lines |-> << >>, document |-> NoDocument, number |-> 0]

\* A generation call is recorded as the most recent one, and as the earlier
\* one when none is held or the caller forgets the one that is.
Generated(call) ==
    /\ genCount < MaxGenerations
    /\ genCount' = genCount + 1
    /\ genLast' = [call EXCEPT !.number = genCount + 1]
    /\ \/ genFirst' = [call EXCEPT !.number = genCount + 1]
       \/ genFirst.op # "none" /\ genFirst' = genFirst
    /\ UNCHANGED coutFormat

\* modeler.generateGroundCommand(params, water)
GenerateGroundAgain(params, water) ==
    Generated([NoGeneration EXCEPT
                  !.op = "generateGroundCommand", !.params = params, !.water = water,
                  !.lines = generateGroundCommandWater(params, water)])

\* necGen.generateNEC(...), ezGen.generateEZ(...)
GenerateDocument(format, triangles, frequencyMHz, hasAntenna, water) ==
    Generated([NoGeneration EXCEPT
                  !.op = IF format = "NEC" THEN "generateNEC" ELSE "generateEZ",
                  !.triangles = triangles, !.frequencyMHz = frequencyMHz,
                  !.hasAntenna = hasAntenna, !.water = water,
                  !.document = IF format = "NEC"
                               THEN generateNEC(triangles, frequencyMHz, hasAntenna, water)
                               ELSE generateEZ(triangles, frequencyMHz, hasAntenna, water)])

\* necGen.generateNECStructureOnly(...), ezGen.generateEZStructureOnly(...)
GenerateStructureOnly(format, triangles) ==
    Generated([NoGeneration EXCEPT
                  !.op = IF format = "NEC" THEN "generateNECStructureOnly"
                         ELSE "generateEZStructureOnly",
                  !.triangles = triangles,
                  !.document = IF format = "NEC" THEN generateNECStructureOnly(triangles)
                               ELSE generateEZStructureOnly(triangles)])

\* waterDB.printWaterTypes()
PrintWaterTypesCall ==
    /\ coutFormat' = printWaterTypes(coutFormat)
    /\ UNCHANGED << genCount, genFirst, genLast >>

\* detector.printAntennaInfo()
PrintAntennaInfoCall(isDetected) ==
    /\ coutFormat' = printAntennaInfo(coutFormat, isDetected)
    /\ UNCHANGED << genCount, genFirst, genLast >>

GenInit ==
    /\ coutFormat = FreshStream
    /\ genCount = 0
    /\ genFirst = NoGeneration
    /\ genLast = NoGeneration

\* ------------------------------------------------------------- main()

VARIABLES
    mainPc,       \* the statement of main the run is at
    input,        \* the UserInput that ui.getUserInput() returned
    hasAntenna,   \* the local hasAntenna
    antenna,      \* the local antenna
    necContent,   \* the local necContent
    ezContent,    \* the local ezContent
    exitStatus,   \* "running", or the value main returned
    mainLog       \* the calls made so far on the parser, the detector, the
                  \* generators and the output files, in order

mainVars ==
    << mainPc, input, hasAntenna, antenna, necContent, ezContent, exitStatus, mainLog >>

\* UserInput::UserInput, with the setting main reads as enableAntennaDetection
NoInput == [frequencyMHz |-> 0, enableAntennaDetection |-> FALSE, water |-> NoWater]

\* UserInterface::validateFrequency
validateFrequency(frequency) == frequency >= 0

\* What is typed at the frequency prompt, and the inputs that follow from it.
EnteredFrequencies == {0 - MHz, 0, 146 * MHz}

UserInputs ==
    { [frequencyMHz |-> f, enableAntennaDetection |-> d, water |-> w] :
        f \in { e \in EnteredFrequencies : validateFrequency(e) },
        d \in BOOLEAN, w \in {NoWater, SaltWater} }

\* Meshes of the files main is run on; the file of the empty one fails to
\* load.
MainMeshes == RedetectMeshes

\* What is typed at the scale prompt: nothing, a length, or no number.
ScaleInputs == {"", "2", "abc"}

\* main, lines 25-26: UserInput input = ui.getUserInput()
GetUserInput(i) ==
    /\ mainPc = "input"
    /\ input' = i
    /\ mainPc' = "load"
    /\ UNCHANGED << hasAntenna, antenna, necContent, ezContent, exitStatus, mainLog >>

\* A run that goes on to the scale prompt whatever loadFile returned.
AfterLoadContinue(ok) == "scale"

\* main, lines 29-34: the statement after parser.loadFile(...) returned ok.
AfterLoad(ok) == IF ok THEN "scale" ELSE "done"

\* main, lines 29-34: parser.loadFile(input.stlFilename), return 1 on failure
LoadStep(m) ==
    /\ mainPc = "load"
    /\ LoadMesh(m)
    /\ mainLog' = Append(mainLog, IF m # << >> THEN "loadFile: true" ELSE "loadFile: false")
    /\ mainPc' = AfterLoad(m # << >>)
    /\ exitStatus' = IF AfterLoad(m # << >>) = "done" THEN "1" ELSE exitStatus
    /\ UNCHANGED << input, hasAntenna, antenna, necContent, ezContent >>

\* main, lines 47-59: an empty line keeps the scale; std::stod throws on a
\* line that is no number and the handler of lines 152-156 returns 1.
ScaleStep(scaleInput) ==
    /\ mainPc = "scale"
    /\ CASE scaleInput = "" ->
              /\ mainPc' = "frequency"
              /\ UNCHANGED << parserVars, scaleCall, exitStatus, mainLog >>
         [] scaleInput = "2" ->
              /\ ScaleToLengthCall(2)
              /\ mainLog' = Append(mainLog, "scaleToLength")
              /\ mainPc' = "frequency"
              /\ UNCHANGED exitStatus
         [] OTHER ->
              /\ mainPc' = "done"
              /\ exitStatus' = "1"
              /\ UNCHANGED << parserVars, scaleCall, mainLog >>
    /\ UNCHANGED << input, hasAntenna, antenna, necContent, ezContent >>

\* main, lines 62-65
FrequencyStep ==
    /\ mainPc = "frequency"
    /\ IF input.frequencyMHz > 0 THEN setFrequency(input.frequencyMHz)
       ELSE UNCHANGED freqVars
    /\ mainPc' = "detect"
    /\ UNCHANGED << input, hasAntenna, antenna, necContent, ezContent, exitStatus,
                    mainLog >>

\* main, lines 68-85: response is what ui.getAntennaConfirmation returns.
DetectStep(response) ==
    /\ mainPc = "detect"
    /\ IF input.enableAntennaDetection
       THEN /\ DetectCall(triangles_)
            /\ antenna' = antenna_'
            /\ hasAntenna' = response
            /\ mainLog' = Append(mainLog, "detectAntenna")
       ELSE /\ antenna' = NoAntenna
            /\ hasAntenna' = FALSE
            /\ UNCHANGED << detectVars, mainLog >>
    /\ mainPc' = "nec"
    /\ UNCHANGED << input, necContent, ezContent, exitStatus >>

\* The decision taken on the confirmation alone.
WithAntennaConfirmed(confirmed, wire) == confirmed

\* main, lines 91 and 114: hasAntenna && antenna.isDetected
WithAntenna(confirmed, wire) == confirmed /\ wire.isDetected

\* The frequency of the FrequencyCalculator in MHz, as a decimal.
FrequencyOf(f) == << f, 0 - 4 >>

\* main, lines 88-108: opened is necFile.is_open()
NECStep(opened) ==
    /\ mainPc = "nec"
    /\ necContent' =
           IF WithAntenna(hasAntenna, antenna)
           THEN generateNEC(triangles_, FrequencyOf(frequencyMHz_), TRUE, input.water)
           ELSE generateNECStructureOnly(triangles_)
    /\ mainLog' =
           mainLog \o
           << IF WithAntenna(hasAntenna, antenna) THEN "generateNEC"
              ELSE "generateNECStructureOnly" >> \o
           (IF opened THEN << "write NEC" >> ELSE << >>)
    /\ mainPc' = "ez"
    /\ UNCHANGED << input, hasAntenna, antenna, ezContent, exitStatus >>

\* main, lines 111-131 and 158: opened is ezFile.is_open()
EZStep(opened) ==
    /\ mainPc = "ez"
    /\ ezContent' =
           IF WithAntenna(hasAntenna, antenna)
           THEN generateEZ(triangles_, FrequencyOf(frequencyMHz_), TRUE, input.water)
           ELSE generateEZStructureOnly(triangles_)
    /\ mainLog' =
           mainLog \o
           << IF WithAntenna(hasAntenna, antenna) THEN "generateEZ"
              ELSE "generateEZStructureOnly" >> \o
           (IF opened THEN << "write EZ" >> ELSE << >>)
    /\ mainPc' = "done"
    /\ exitStatus' = "0"
    /\ UNCHANGED << input, hasAntenna, antenna, necContent >>

MainInit ==
    /\ mainPc = "input"
    /\ input = NoInput
    /\ hasAntenna = FALSE
    /\ antenna = NoAntenna
    /\ necContent = NoDocument
    /\ ezContent = NoDocument
    /\ exitStatus = "running"
    /\ mainLog = << >>

\* ------------------------------------------- MemoryManager: peak usage

VARIABLES
    reported,   \* the largest value getCurrentMemoryUsage() has returned to
                \* a call of NextMemory since construction or the last
                \* resetPeakMemoryUsage(); 0 when it has returned none
    memRet      \* the last call on the MemoryManager and what it returned

memVars == << reported, memRet >>

\* Values of setMemoryLimit, in megabytes.
MemoryLimits == {1, 4, DefaultMemoryLimitMB}

NoMemoryCall == [op |-> "none", usage |-> 0, peak |-> 0, limit |-> 0, exceeded |-> FALSE]

\* size_t getCurrentMemoryUsage() const: measures, stores and returns.
GetCurrentMemoryUsage ==
    /\ currentMemoryUsage_' = calculateMemoryUsage
    /\ reported' = Max(reported, calculateMemoryUsage)

\* manager.getCurrentMemoryUsage()
GetCurrentMemoryUsageCall ==
    /\ GetCurrentMemoryUsage
    /\ memRet' = [NoMemoryCall EXCEPT !.op = "getCurrentMemoryUsage",
                                      !.usage = calculateMemoryUsage]
    /\ UNCHANGED << memoryLimitMB_, peakMemoryUsage_, maxrss >>

\* manager.getPeakMemoryUsage()
GetPeakMemoryUsageCall ==
    /\ memRet' = [NoMemoryCall EXCEPT !.op = "getPeakMemoryUsage",
                                      !.peak = peakMemoryUsage_]
    /\ UNCHANGED << memoryLimitMB_, currentMemoryUsage_, peakMemoryUsage_, maxrss,
                    reported >>

\* manager.resetPeakMemoryUsage()
ResetPeakMemoryUsageCall ==
    /\ peakMemoryUsage_' = 0
    /\ reported' = 0
    /\ memRet' = [NoMemoryCall EXCEPT !.op = "resetPeakMemoryUsage"]
    /\ UNCHANGED << memoryLimitMB_, currentMemoryUsage_, maxrss >>

\* manager.setMemoryLimit(limitMB)
SetMemoryLimitCall(limitMB) ==
    /\ memoryLimitMB_' = limitMB
    /\ memRet' = [NoMemoryCall EXCEPT !.op = "setMemoryLimit"]
    /\ UNCHANGED << currentMemoryUsage_, peakMemoryUsage_, maxrss, reported >>

\* manager.isMemoryLimitExceeded()
IsMemoryLimitExceededCall ==
    /\ GetCurrentMemoryUsage
    /\ memRet' = [NoMemoryCall EXCEPT
                     !.op = "isMemoryLimitExceeded",
                     !.exceeded = isMemoryLimitExceeded(calculateMemoryUsage)]
    /\ UNCHANGED << memoryLimitMB_, peakMemoryUsage_, maxrss >>

\* manager.getMemoryStats(): currentUsage, peakUsage and limit of the stats.
GetMemoryStatsCall ==
    /\ GetCurrentMemoryUsage
    /\ memRet' = [NoMemoryCall EXCEPT
                     !.op = "getMemoryStats", !.usage = calculateMemoryUsage,
                     !.peak = peakMemoryUsage_, !.limit = memoryLimitMB_ * KiB * KiB]
    /\ UNCHANGED << memoryLimitMB_, peakMemoryUsage_, maxrss >>

\* void updatePeakMemoryUsage()
updatePeakMemoryUsage(current, peak) == IF current > peak THEN current ELSE peak

\* manager.optimizeMemoryUsage(): clearCaches() does nothing.
OptimizeMemoryUsageCall ==
    /\ GetCurrentMemoryUsage
    /\ peakMemoryUsage_' = updatePeakMemoryUsage(calculateMemoryUsage, peakMemoryUsage_)
    /\ memRet' = [NoMemoryCall EXCEPT !.op = "optimizeMemoryUsage"]
    /\ UNCHANGED << memoryLimitMB_, maxrss >>

MemoryInit ==
    /\ reported = 0
    /\ memRet = NoMemoryCall

\* ------------------------------------------------------- specifications

VARIABLE subject   \* the file both readers are run on (SpecEquiv)

\* The variables of the ground, generator, pipeline and memory models.
outputVars == << groundCall, genVars, mainVars, memVars >>

OutputInit == GroundInit /\ GenInit /\ MainInit /\ MemoryInit

\* The variables of the geometry, detector and frequency models.
analysisVars == << boxVars, geomCall, detectVars, scaleCall, freqVars, outputVars >>

AnalysisInit ==
    BoxInit /\ GeomInit /\ DetectInit /\ scaleCall = NoScaleCall /\ FreqInit /\ OutputInit

vars == << parserVars, streamVars, processVars, subject, analysisVars >>

Init ==
    ParserInit /\ StreamInit /\ ProcessInit /\ subject = NoFile /\ AnalysisInit

LoadAny ==
    /\ \E f \in Paths : loadFile(f)
    /\ UNCHANGED << streamVars, processVars, subject, analysisVars >>

Next == LoadAny

\* Any sequence of loadFile calls on one STLParser.
Spec == Init /\ [][Next]_vars

OpenAny ==
    /\ \E f \in StreamFiles, cs \in ChunkSizes : NewStream(f, cs)
    /\ UNCHANGED << parserVars, processVars, subject, analysisVars >>

ChunkCall == GetNextChunkCall /\ UNCHANGED << parserVars, processVars, subject, analysisVars >>

NextStream == OpenAny \/ ChunkCall

\* One STLStreamProcessor, built on any file with any chunk size, and any
\* number of getNextChunk calls on it.
SpecStream == Init /\ [][NextStream]_vars

InitEquiv ==
    /\ ParserInit /\ StreamInit /\ ProcessInit /\ AnalysisInit
    /\ subject \in StreamFiles

LoadSubject ==
    /\ loadFile(subject)
    /\ UNCHANGED << streamVars, processVars, subject, analysisVars >>

OpenSubject ==
    /\ \E cs \in ChunkSizes : NewStream(subject, cs)
    /\ UNCHANGED << parserVars, processVars, subject, analysisVars >>

NextEquiv == LoadSubject \/ OpenSubject \/ ChunkCall

\* Both readers run on one and the same file.
SpecEquiv == InitEquiv /\ [][NextEquiv]_vars

\* Files processSTLFile is run on: every binary file a reader is opened on,
\* and the well-formed text files.
ProcessFiles ==
    { f \in StreamFiles : f.enc = "bin" \/ \E n \in 0 .. MaxFacets : WellFormedText(f, n) }

StartAny ==
    /\ \E f \in ProcessFiles \cup {NoFile} : ProcessStart(f)
    /\ UNCHANGED << parserVars, subject, analysisVars >>

LoopStep == LoopHead /\ UNCHANGED << parserVars, subject, analysisVars >>

CheckStep == MemoryCheck /\ UNCHANGED << parserVars, subject, analysisVars >>

GrowStep == RssGrows /\ UNCHANGED << parserVars, subject, analysisVars >>

NextProcess == StartAny \/ LoopStep \/ CheckStep \/ GrowStep

\* Any sequence of processSTLFile calls on one MemoryEfficientSTLParser.
\* The thread that runs the loop is never stopped: a step of the loop that
\* can be taken is taken.
SpecProcess ==
    Init /\ [][NextProcess]_vars /\ WF_vars(LoopStep) /\ WF_vars(CheckStep)

\* Variables the later specifications leave alone.
readerVars == << streamVars, processVars, subject >>

ExpandAny ==
    /\ \E p \in BoxPointSet : ExpandCall(p)
    /\ UNCHANGED << parserVars, readerVars, geomCall, detectVars, scaleCall, freqVars, outputVars >>

NextBox == ExpandAny

\* One default-constructed BoundingBox, expanded with any points.
SpecBox == Init /\ [][NextBox]_vars

WireLikeAny ==
    /\ geomCall = NoCall
    /\ \E tris \in SeqsUpTo(WireLikeTriangles, MaxTriangles), d \in MaxDiameters :
           IsWireLikeCall(tris, d)
    /\ UNCHANGED << parserVars, readerVars, boxVars, detectVars, scaleCall, freqVars, outputVars >>

SimplifyAny ==
    /\ geomCall = NoCall
    /\ \E path \in SeqsUpTo(PathPoints, MaxPathLen), t \in Tolerances :
           SimplifyCall(path, t)
    /\ UNCHANGED << parserVars, readerVars, boxVars, detectVars, scaleCall, freqVars, outputVars >>

NextGeom == WireLikeAny \/ SimplifyAny

\* One call of GeometryUtils::isWireLike or of the path simplification, on
\* any arguments: the functions keep no state from one call to the next.
SpecGeom == Init /\ [][NextGeom]_vars

DetectAny ==
    /\ \E tris \in IF detectArg.called THEN RedetectMeshes ELSE DetectMeshes :
           DetectCall(tris)
    /\ UNCHANGED << parserVars, readerVars, boxVars, geomCall, scaleCall, freqVars, outputVars >>

SetDiameterAny ==
    /\ \E d \in WireDiameters : setMaxWireDiameter(d)
    /\ UNCHANGED << parserVars, readerVars, boxVars, geomCall, scaleCall, freqVars, outputVars >>

SetMinLengthAny ==
    /\ \E l \in MinWireLengths : setMinWireLength(l)
    /\ UNCHANGED << parserVars, readerVars, boxVars, geomCall, scaleCall, freqVars, outputVars >>

SetMaxLengthAny ==
    /\ \E l \in MaxWireLengths : setMaxWireLength(l)
    /\ UNCHANGED << parserVars, readerVars, boxVars, geomCall, scaleCall, freqVars, outputVars >>

NextDetect == DetectAny \/ SetDiameterAny \/ SetMinLengthAny \/ SetMaxLengthAny

\* One AntennaDetector: any sequence of parameter settings and detections.
SpecDetect == Init /\ [][NextDetect]_vars

LoadMeshAny ==
    /\ loadRet = "none"
    /\ \E m \in ScaleMeshes : LoadMesh(m)
    /\ UNCHANGED << readerVars, boxVars, geomCall, detectVars, freqVars, outputVars >>

ScaleAny ==
    /\ \E l \in TargetLengths : ScaleToLengthCall(l)
    /\ UNCHANGED << readerVars, boxVars, geomCall, detectVars, freqVars, outputVars >>

ScaleAxisAny ==
    /\ \E l \in TargetLengths, axis \in Axes : ScaleToLengthAxisCall(l, axis)
    /\ UNCHANGED << readerVars, boxVars, geomCall, detectVars, freqVars, outputVars >>

NextScale == LoadMeshAny \/ ScaleAny \/ ScaleAxisAny

\* One STLParser: the load of any mesh, then any sequence of scaling calls.
SpecScale == Init /\ [][NextScale]_vars

ReloadAny ==
    /\ \E m \in ScaleMeshes : LoadMesh(m)
    /\ UNCHANGED << readerVars, boxVars, geomCall, detectVars, freqVars, outputVars >>

NextReload == ReloadAny \/ ScaleAny \/ ScaleAxisAny

\* One STLParser: any sequence of loads and scaling calls, in any order.
SpecReload == Init /\ [][NextReload]_vars

SetFrequencyAny ==
    /\ \E f \in Frequencies : setFrequency(f)
    /\ UNCHANGED << parserVars, readerVars, boxVars, geomCall, detectVars, scaleCall, outputVars >>

SegmentsAny ==
    /\ \E l \in WireLengths, g \in GridSpacings : CalculateSegmentsCall(l, g)
    /\ UNCHANGED << parserVars, readerVars, boxVars, geomCall, detectVars, scaleCall, outputVars >>

SegmentsRecommendedAny ==
    /\ \E l \in WireLengths : CalculateSegmentsRecommendedCall(l)
    /\ UNCHANGED << parserVars, readerVars, boxVars, geomCall, detectVars, scaleCall, outputVars >>

GeneratorSegmentsAny ==
    /\ \E l \in WireLengths : GeneratorSegmentsCall(l)
    /\ UNCHANGED << parserVars, readerVars, boxVars, geomCall, detectVars, scaleCall, outputVars >>

NextFreq ==
    SetFrequencyAny \/ SegmentsAny \/ SegmentsRecommendedAny \/ GeneratorSegmentsAny

\* One FrequencyCalculator: any sequence of setFrequency calls and
\* segment-count calls.
SpecFreq == Init /\ [][NextFreq]_vars

GroundCommandAny ==
    /\ groundCall = NoGroundCall
    /\ \E params \in GroundParameterSet : GenerateGroundCommandCall(params)
    /\ UNCHANGED << parserVars, readerVars, boxVars, geomCall, detectVars, scaleCall,
                    freqVars, genVars, mainVars, memVars >>

GroundCommandWaterAny ==
    /\ groundCall = NoGroundCall
    /\ \E params \in GroundParameterSet, water \in Waters :
            GenerateGroundCommandWaterCall(params, water)
    /\ UNCHANGED << parserVars, readerVars, boxVars, geomCall, detectVars, scaleCall,
                    freqVars, genVars, mainVars, memVars >>

GroundParametersAny ==
    /\ groundCall = NoGroundCall
    /\ \E type \in GroundTypes, water \in Waters : GetGroundParametersCall(type, water)
    /\ UNCHANGED << parserVars, readerVars, boxVars, geomCall, detectVars, scaleCall,
                    freqVars, genVars, mainVars, memVars >>

NextGround == GroundCommandAny \/ GroundCommandWaterAny \/ GroundParametersAny

\* One call on a GroundModeler, which has no fields.
SpecGround == Init /\ [][NextGround]_vars

GroundAgainAny ==
    /\ \E params \in GenParameters, water \in GenWaters : GenerateGroundAgain(params, water)
    /\ UNCHANGED << parserVars, readerVars, boxVars, geomCall, detectVars, scaleCall,
                    freqVars, groundCall, mainVars, memVars >>

DocumentAny ==
    /\ \E format \in {"NEC", "EZ"}, triangles \in GenMeshes, f \in GenFrequencies,
          withAntenna \in BOOLEAN, water \in GenWaters :
            GenerateDocument(format, triangles, f, withAntenna, water)
    /\ UNCHANGED << parserVars, readerVars, boxVars, geomCall, detectVars, scaleCall,
                    freqVars, groundCall, mainVars, memVars >>

StructureOnlyAny ==
    /\ \E format \in {"NEC", "EZ"}, triangles \in GenMeshes :
            GenerateStructureOnly(format, triangles)
    /\ UNCHANGED << parserVars, readerVars, boxVars, geomCall, detectVars, scaleCall,
                    freqVars, groundCall, mainVars, memVars >>

PrintWaterTypesStep ==
    /\ PrintWaterTypesCall
    /\ UNCHANGED << parserVars, readerVars, boxVars, geomCall, detectVars, scaleCall,
                    freqVars, groundCall, mainVars, memVars >>

PrintAntennaInfoAny ==
    /\ \E isDetected \in BOOLEAN : PrintAntennaInfoCall(isDetected)
    /\ UNCHANGED << parserVars, readerVars, boxVars, geomCall, detectVars, scaleCall,
                    freqVars, groundCall, mainVars, memVars >>

NextGen ==
    \/ GroundAgainAny
    \/ DocumentAny
    \/ StructureOnlyAny
    \/ PrintWaterTypesStep
    \/ PrintAntennaInfoAny

\* Generation calls on one GroundModeler, one NECGenerator and one
\* EZGenerator, with output written to std::cout between them.
SpecGen == Init /\ [][NextGen]_vars

GetUserInputAny ==
    /\ \E i \in UserInputs : GetUserInput(i)
    /\ UNCHANGED << parserVars, readerVars, boxVars, geomCall, detectVars, scaleCall,
                    freqVars, groundCall, genVars, memVars >>

LoadStepAny ==
    /\ \E m \in MainMeshes : LoadStep(m)
    /\ UNCHANGED << readerVars, boxVars, geomCall, detectVars, freqVars, groundCall,
                    genVars, memVars >>

ScaleStepAny ==
    /\ \E scaleInput \in ScaleInputs : ScaleStep(scaleInput)
    /\ UNCHANGED << readerVars, boxVars, geomCall, detectVars, freqVars, groundCall,
                    genVars, memVars >>

FrequencyStepOnce ==
    /\ FrequencyStep
    /\ UNCHANGED << parserVars, readerVars, boxVars, geomCall, detectVars, scaleCall,
                    groundCall, genVars, memVars >>

DetectStepAny ==
    /\ \E response \in BOOLEAN : DetectStep(response)
    /\ UNCHANGED << parserVars, readerVars, boxVars, geomCall, scaleCall, freqVars,
                    groundCall, genVars, memVars >>

NECStepAny ==
    /\ \E opened \in BOOLEAN : NECStep(opened)
    /\ UNCHANGED << parserVars, readerVars, boxVars, geomCall, detectVars, scaleCall,
                    freqVars, groundCall, genVars, memVars >>

EZStepAny ==
    /\ \E opened \in BOOLEAN : EZStep(opened)
    /\ UNCHANGED << parserVars, readerVars, boxVars, geomCall, detectVars, scaleCall,
                    freqVars, groundCall, genVars, memVars >>

NextMain ==
    \/ GetUserInputAny
    \/ LoadStepAny
    \/ ScaleStepAny
    \/ FrequencyStepOnce
    \/ DetectStepAny
    \/ NECStepAny
    \/ EZStepAny

\* One run of main.
SpecMain == Init /\ [][NextMain]_vars

\* What a call on the MemoryManager leaves alone.
MemoryFrame ==
    UNCHANGED << parserVars, streamVars, procPc, procRet, stopCause, outcomes, subject,
                 boxVars, geomCall, detectVars, scaleCall, freqVars, groundCall, genVars,
                 mainVars >>

CurrentUsageStep == GetCurrentMemoryUsageCall /\ MemoryFrame

PeakUsageStep == GetPeakMemoryUsageCall /\ MemoryFrame

ResetPeakStep == ResetPeakMemoryUsageCall /\ MemoryFrame

SetLimitAny == (\E limitMB \in MemoryLimits : SetMemoryLimitCall(limitMB)) /\ MemoryFrame

LimitExceededStep == IsMemoryLimitExceededCall /\ MemoryFrame

MemoryStatsStep == GetMemoryStatsCall /\ MemoryFrame

OptimizeStep == OptimizeMemoryUsageCall /\ MemoryFrame

NextMemory ==
    \/ CurrentUsageStep
    \/ PeakUsageStep
    \/ ResetPeakStep
    \/ SetLimitAny
    \/ LimitExceededStep
    \/ MemoryStatsStep
    \/ OptimizeStep
    \/ GrowStep

\* Any sequence of calls on one MemoryManager while the process grows.
SpecMemory == Init /\ [][NextMemory]_vars

\* ----------------------------------------------- claims on STLParser

\* The last loadFile call took the binary path of loadFile.
LoadedAsBinary == loadRet # "none" /\ loadArg # NoFile /\ ~isASCII(loadArg)

\* The last loadFile call took the text path of loadFile.
LoadedAsText == loadRet # "none" /\ loadArg # NoFile /\ isASCII(loadArg)

\* C1: a binary file that holds a count field and whose size differs from
\* 84 + 50 * count, shorter or longer, is rejected with the size-mismatch
\* reason.
C1_SizeMismatchRejected ==
    (LoadedAsBinary /\ loadArg.size >= MinBinarySize /\ ~ExactSize(loadArg))
        => /\ loadRet = "false"
           /\ errorMessage_ = "File size doesn't match triangle count"

\* C2: a binary file smaller than 84 + 50 * count (the product taken in the
\* integers) is rejected with a reason and leaves no triangle in the parser.
C2_TruncatedLeavesNothing ==
    (LoadedAsBinary /\ BelowDeclaredSize(loadArg))
        => /\ loadRet = "false"
           /\ errorMessage_ # ""
           /\ ~loaded_
           /\ triangles_ = << >>

\* C3: parseBinary reads no byte at an index >= data.size(), whatever the
\* buffer length and the declared count.
C3_ReadsInsideBuffer == loadRet # "none" => readEnd <= loadArg.size

\* C3 witness: the count field defeats the size check by wrap-around, the
\* record loop reads the last whole record and stops at the buffer end.
C3_Witness ==
    /\ LoadedAsBinary
    /\ loadArg.count = WrapCount
    /\ errorMessage_ = "Unexpected end of file"
    /\ readEnd > MinBinarySize
    /\ readEnd + (RecordBytes - RecordDataBytes) = loadArg.size

\* The facet block that starts at line i is as the format asks: outer loop,
\* three "vertex" lines with numeric coordinates, endloop, endfacet.
BlockWellFormed(lines, i) ==
    /\ i + 6 <= Len(lines)
    /\ lines[i + 1].kw = "outer"
    /\ \A j \in i + 2 .. i + 4 : lines[j].kw = "vertex" /\ lines[j].num
    /\ lines[i + 5].kw = "endloop"
    /\ lines[i + 6].kw = "endfacet"

HasMalformedBlock(lines) ==
    \E i \in 1 .. Len(lines) : lines[i].kw = "facet" /\ ~BlockWellFormed(lines, i)

\* C4: text with a malformed facet block fails the whole load.
C4_MalformedBlockFails ==
    (LoadedAsText /\ HasMalformedBlock(loadArg.lines)) => loadRet = "false"

\* C5: whenever loadFile returns false, getErrorMessage() is not empty.
C5_FailureHasReason == loadRet = "false" => errorMessage_ # ""

\* -------------------------------------- claims on STLStreamProcessor

\* C8: on a well-formed file of n triangles getTotalTriangles() = n in both
\* encodings, so that getProgress() is 100 exactly when the n-th triangle
\* has been delivered.
C8_TotalIsTriangleCount ==
    sp.open =>
        /\ WellFormedBinary(sp.filename_) => sp.totalTriangles_ = sp.filename_.count
        /\ \A n \in 0 .. MaxFacets :
              WellFormedText(sp.filename_, n) =>
                  /\ sp.totalTriangles_ = n
                  /\ n > 0 => (getProgress(sp) = 100 <=> Len(delivered) = n)

\* C10: every getNextChunk call leaves the reader valid: processedTriangles
\* stays within 0 .. totalTriangles, never decreases, grows by the size of
\* the chunk returned, getProgress() stays within 0 .. 100, and a call made
\* when hasMoreTriangles() is false returns an empty chunk and changes
\* nothing.
C10_ReaderStaysValid ==
    [][ /\ sp'.open =>
              /\ 0 <= sp'.processedTriangles_
              /\ sp'.processedTriangles_ <= sp'.totalTriangles_
              /\ getProgress(sp') \in 0 .. 100
        /\ sp.open =>
              /\ sp'.processedTriangles_ >= sp.processedTriangles_
              /\ sp'.processedTriangles_ = sp.processedTriangles_ + Len(lastChunk')
              /\ sp'.totalTriangles_ = sp.totalTriangles_
              /\ ~hasMoreTriangles(sp) => (lastChunk' = << >> /\ sp' = sp)
      ]_vars

\* C10 witness: the two triangles of a well-formed binary file have been
\* delivered one per chunk, and a third call has returned an empty chunk.
C10_Witness ==
    /\ sp.open
    /\ WellFormedBinary(sp.filename_)
    /\ sp.totalTriangles_ = 2
    /\ ~hasMoreTriangles(sp)
    /\ delivered = << MeshTri(1), MeshTri(2) >>
    /\ lastChunk = << >>
    /\ calls = 3

\* ------------------------------------------- claims on both readers

\* loadFile rejected the file for its size or for ending too early.
RejectedForSize ==
    /\ loadRet = "false"
    /\ errorMessage_ \in {"File size doesn't match triangle count", "Unexpected end of file"}

\* C6: both readers classify a mesh file as the same encoding, the chunks
\* of the streaming reader, concatenated, are the triangles loadFile
\* produces, and a file loadFile rejects for its size is not delivered as
\* triangles.
C6_StreamingMatchesWholeFile ==
    (sp.open /\ loadRet # "none") =>
        /\ MeshFile(subject) => sp.isBinary_ = ~isASCII(subject)
        /\ (MeshFile(subject) /\ loadRet = "true" /\ ~hasMoreTriangles(sp))
              => delivered = triangles_
        /\ RejectedForSize => delivered = << >>

\* --------------------------------------------- claims on processSTLFile

\* The memory ceiling is exceeded: the next memory check stops the loop.
CeilingExceeded == maxrss \in { r \in RssValues : isMemoryLimitExceeded(r * KiB) }

\* C7: the loop of processSTLFile ends and the call returns, also in a
\* process that never exceeds the memory ceiling.
C7_StreamingTerminates ==
    (procPc = "head") ~> (procPc = "returned" \/ CeilingExceeded)

\* C9: the value returned for a memory-ceiling stop, the value returned for
\* a file error and the value returned for complete success differ from
\* one another.
C9_StopStatusDistinct ==
    \A c, d \in Causes : c # d => outcomes[c] \cap outcomes[d] = {}

\* --------------------------------------- claims on AntennaDetector

\* The component made of triangle t qualifies under the parameters of the
\* detectAntenna call a: it is wire-like, the length of its path lies in
\* [minWireLength, maxWireLength] and its radius in (0, 0.01 m].
Qualifies(t, a) ==
    LET length == calculateWireLength(extractWirePath(<< t >>))
        radius == calculateWireRadius(<< t >>)
    IN  /\ isWireLikeComponent(<< t >>, a.maxWireDiameter)
        /\ a.minWireLength <= length /\ length <= a.maxWireLength
        /\ 0 < radius[1] /\ radius[1] <= MaxAntennaRadius * radius[2]

Qualifying(a) ==
    { i \in 1 .. Len(a.triangles) : Qualifies(a.triangles[i], a) }

\* C11: detectAntenna returns at most one wire, the first component in
\* input order that qualifies: detected, made of that component alone,
\* with the first and the last point of its path as start and end point and
\* a length and a radius inside the accepted ranges; when no component
\* qualifies or the input is empty the wire is not detected and has no
\* triangles, no path, radius 0 and length 0.
C11_FirstMatchWins ==
    detectArg.called =>
        IF Qualifying(detectArg) = {}
        THEN /\ ~antenna_.isDetected
             /\ antenna_.triangles = << >> /\ antenna_.path = << >>
             /\ antenna_.radius[1] = 0 /\ antenna_.length = 0
        ELSE LET first == CHOOSE i \in Qualifying(detectArg) :
                              \A j \in Qualifying(detectArg) : i <= j
             IN  /\ antenna_.isDetected
                 /\ antenna_.triangles = << detectArg.triangles[first] >>
                 /\ antenna_.path # << >>
                 /\ antenna_.startPoint = antenna_.path[1]
                 /\ antenna_.endPoint = antenna_.path[Len(antenna_.path)]
                 /\ detectArg.minWireLength <= antenna_.length
                 /\ antenna_.length <= detectArg.maxWireLength
                 /\ 0 < antenna_.radius[1]
                 /\ antenna_.radius[1] <= MaxAntennaRadius * antenna_.radius[2]

\* Two different components qualify and the first one was returned.
C11_Witness ==
    /\ detectArg.called
    /\ Len(detectArg.triangles) = 2
    /\ Qualifying(detectArg) = {1, 2}
    /\ detectArg.triangles[1] # detectArg.triangles[2]
    /\ antenna_.isDetected
    /\ antenna_.triangles = << detectArg.triangles[1] >>

\* ----------------------------------------- claims on GeometryUtils

\* The extent of the vertices of tris along axis k: the largest less the
\* smallest coordinate.
Extent(tris, k) ==
    LET cs == { VerticesOf(tris)[i][k] : i \in 1 .. 3 * Len(tris) }
    IN  (CHOOSE hi \in cs : \A c \in cs : c <= hi)
            - (CHOOSE lo \in cs : \A c \in cs : lo <= c)

Extents(tris) == << Extent(tris, 1), Extent(tris, 2), Extent(tris, 3) >>

\* At most one of the three extents of the vertices exceeds maxDiameter.
ThinInTwoAxes(tris, maxDiameter) ==
    Cardinality({ k \in 1 .. 3 : Extent(tris, k) > maxDiameter }) <= 1

\* C12: a component is classified wire-like exactly when the two smallest
\* extents of its vertices are each at most the maximum wire diameter; a
\* component that spans more than the maximum diameter along two axes is
\* never classified wire-like.
C12_WireLikeIffThin ==
    (geomCall.op = "isWireLike" /\ geomCall.tris # << >>) =>
        (geomCall.ret <=> ThinInTwoAxes(geomCall.tris, geomCall.maxDiameter))

\* Every point the box was expanded with.
BoxHolds(p) ==
    \A k \in 1 .. 3 : bbox.min[k] <= p[k] /\ p[k] <= bbox.max[k]

\* C13: after a fresh BoundingBox was expanded with a sequence of points,
\* every one of these points lies inside the box, the origin included.
C13_BoxHoldsItsPoints ==
    \A i \in 1 .. Len(boxPoints) : BoxHolds(boxPoints[i])

\* The index sets K of a path of n > 2 points with 1 and n in K and, for
\* every index j between them, j in K exactly when point j lies further
\* than the tolerance from the point of the largest index of K below j.
KeptSets(path, tolerance) ==
    LET n == Len(path)
        LastBelow(K, j) == CHOOSE k \in K : k < j /\ \A m \in K : m < j => m <= k
    IN  { K \in SUBSET (1 .. n) :
            /\ 1 \in K /\ n \in K
            /\ \A j \in 2 .. n - 1 :
                 j \in K <=> DistanceAbove(path[j], path[LastBelow(K, j)], tolerance) }

\* The points of path with an index in K, in order.
RECURSIVE Restrict(_, _, _)
Restrict(path, K, i) ==
    IF i > Len(path) THEN << >>
    ELSE (IF i \in K THEN << path[i] >> ELSE << >>) \o Restrict(path, K, i + 1)

\* C14: both path simplifications return a path of at most two points
\* unchanged and, of a longer path, the first point, each later point but
\* the last that lies further than the tolerance from the last point kept,
\* and the last point whatever its distance.
C14_SimplifyKeepsFarPoints ==
    geomCall.op = "simplify" =>
        /\ geomCall.retDetector = geomCall.ret
        /\ IF Len(geomCall.path) <= 2
           THEN geomCall.retDetector = geomCall.path
           ELSE \E K \in KeptSets(geomCall.path, geomCall.tolerance) :
                    geomCall.retDetector = Restrict(geomCall.path, K, 1)

\* Of four points the second was dropped, the third kept although it lies
\* within the tolerance of the second, and the last kept although it lies
\* within the tolerance of the third.
C14_Witness ==
    /\ geomCall.op = "simplify"
    /\ Len(geomCall.path) = 4
    /\ geomCall.tolerance = DefaultTolerance
    /\ geomCall.retDetector = << geomCall.path[1], geomCall.path[3], geomCall.path[4] >>
    /\ ~DistanceAbove(geomCall.path[3], geomCall.path[2], geomCall.tolerance)
    /\ ~DistanceAbove(geomCall.path[4], geomCall.path[3], geomCall.tolerance)

\* ----------------------------------- claims on the scaling of STLParser

\* The last call was a scaling call on a mesh that has triangles.
ScaledAMesh == scaleCall.kind # "none" /\ scaleCall.before # << >>

\* The index of the axis named by the last scaleToLength(target, axis) call
\* (0 for a name that is none of "x", "y", "z").
AxisIndex ==
    IF scaleCall.axis = "x" THEN 1
    ELSE IF scaleCall.axis = "y" THEN 2
    ELSE IF scaleCall.axis = "z" THEN 3 ELSE 0

\* Every coordinate of triangles_ is the coordinate it was before the call
\* times target / extent.
MultipliedBy(target, extent) ==
    /\ Len(triangles_) = Len(scaleCall.before)
    /\ \A i \in 1 .. Len(triangles_) : \A j \in 1 .. 3 : \A k \in 1 .. 3 :
           triangles_[i][j][k] * extent = scaleCall.before[i][j][k] * target

\* The extents getBoundingBox() reported before the last scaling call.
ExtentsBefore == BoxSize(getBoundingBox(scaleCall.before))

NothingToScaleBy ==
    \/ scaleCall.before = << >>
    \/ scaleCall.kind = "axis" /\ AxisIndex = 0
    \/ /\ scaleCall.before # << >>
       /\ \/ scaleCall.kind = "length" /\ Largest(Extents(scaleCall.before)) = 0
          \/ scaleCall.kind = "axis" /\ AxisIndex # 0
                /\ Extent(scaleCall.before, Max(AxisIndex, 1)) = 0

\* C16: scaleToLength leaves every vertex (and with it every normal) and
\* the scale factor as they were when the mesh is empty, the extent to
\* scale by is 0 or the axis is none of "x", "y", "z"; and no scaling call
\* changes the original bounding box.
C16_NothingToScaleChangesNothing ==
    scaleCall.kind # "none" =>
        /\ NothingToScaleBy =>
              (triangles_ = scaleCall.before /\ scaleFactor_ = scaleCall.beforeFactor)
        /\ originalBoundingBox_ = scaleCall.beforeOriginal

\* A mesh that was scaled by a factor other than 1 was then left alone by a
\* scaleToLength call with axis "w", although its x extent is positive.
C16_Witness ==
    /\ scaleCall.kind = "axis" /\ scaleCall.axis = "w"
    /\ scaleCall.before # << >>
    /\ Extent(scaleCall.before, 1) > 0
    /\ scaleCall.target # Extent(scaleCall.before, 1)
    /\ scaleCall.beforeFactor # << 1, 1 >>
    /\ triangles_ = scaleCall.before
    /\ scaleFactor_ = scaleCall.beforeFactor
    /\ originalBoundingBox_ # getBoundingBox(triangles_)

\* ---------------------------------- claims on FrequencyCalculator

\* The quotient q (numerator, denominator) is n / d.
SameQuotient(q, n, d) ==
    /\ q[1] # 0 /\ q[2] # 0
    /\ n % q[1] = 0 /\ d % q[2] = 0
    /\ n \div q[1] = d \div q[2]

WavelengthMatchesFrequency ==
    /\ isValidFrequency(frequencyMHz_) <=> frequencyMHz_ > 0
    /\ frequencyMHz_ > 0 =>
          /\ SameQuotient(wavelength_, SPEED_OF_LIGHT, frequencyMHz_)
          /\ SameQuotient(getHighAccuracyGridSpacing(wavelength_),
                          SPEED_OF_LIGHT, 2 * frequencyMHz_)
          /\ SameQuotient(getStandardAccuracyGridSpacing(wavelength_),
                          SPEED_OF_LIGHT, frequencyMHz_)
    /\ frequencyMHz_ <= 0 => wavelength_[1] = 0
    /\ getRecommendedGridSpacing[1] = 50 * getRecommendedGridSpacing[2]

\* C17: before any setFrequency call the frequency and the wavelength are
\* 0; after any sequence of calls, with f the last value set, the frequency
\* is valid iff f > 0, the wavelength is 299792458 / (f * 10^6) m if f > 0
\* and 0 otherwise (in cm: 299792458 / f with f in units of 100 Hz), and
\* the spacings are wavelength / 20, wavelength / 10 and 0.05 m (in mm:
\* 299792458 / 2f, 299792458 / f and 50).
C17_WavelengthFollowsFrequency ==
    /\ frequencyMHz_ = 0 /\ wavelength_[1] = 0
    /\ [] WavelengthMatchesFrequency

\* A frequency that is not positive was set (the constructor leaves 0).
C17_Witness ==
    /\ frequencyMHz_ < 0
    /\ wavelength_[1] = 0
    /\ ~isValidFrequency(frequencyMHz_)

\* n = ceil(length / spacing) for a spacing > 0: n is the whole number with
\* (n - 1) * spacing < length <= n * spacing.
IsCeilOf(n, length, spacing) ==
    /\ length[1] * spacing[2] <= n * spacing[1] * length[2]
    /\ (n - 1) * spacing[1] * length[2] < length[1] * spacing[2]

\* C18: calculateSegments(L, g) is ceil(L / g) for every spacing g > 0 and
\* 1 for every g <= 0; (1.0, 0.05) gives 20 and (1.0, 0.03) gives 34;
\* calculateSegmentsRecommended(L) is ceil(L / 0.05) whatever frequency
\* was set.
C18_SegmentsIsCeiling ==
    /\ segCall.op = "calculateSegments" =>
          /\ IF segCall.spacing[1] > 0
             THEN IsCeilOf(segCall.ret, segCall.length, segCall.spacing)
             ELSE segCall.ret = 1
          /\ (segCall.length = << 1000, 1 >> /\ segCall.spacing = << 50, 1 >>)
                => segCall.ret = 20
          /\ (segCall.length = << 1000, 1 >> /\ segCall.spacing = << 30, 1 >>)
                => segCall.ret = 34
    /\ segCall.op = "calculateSegmentsRecommended" =>
          IsCeilOf(segCall.ret, segCall.length, << 50, 1 >>)

\* calculateSegments(1.0, 0.03) returned 34 after a frequency was set.
C18_Witness ==
    /\ segCall.op = "calculateSegments"
    /\ segCall.length = << 1000, 1 >> /\ segCall.spacing = << 30, 1 >>
    /\ segCall.ret = 34
    /\ frequencyMHz_ > 0

Bands ==
    { [name |-> "VLF (0.001-0.01 MHz)", lo |-> 1, hi |-> 10, loIn |-> TRUE, hiIn |-> FALSE],
      [name |-> "LF (0.01-0.1 MHz)", lo |-> 10, hi |-> 100, loIn |-> TRUE, hiIn |-> FALSE],
      [name |-> "MF (0.1-3 MHz)", lo |-> 100, hi |-> 3000, loIn |-> TRUE, hiIn |-> FALSE],
      [name |-> "HF (3-30 MHz)", lo |-> 3000, hi |-> 30000, loIn |-> TRUE, hiIn |-> TRUE],
      [name |-> "VHF (30-300 MHz)", lo |-> 30000, hi |-> 300000, loIn |-> FALSE, hiIn |-> TRUE],
      [name |-> "UHF (300-3000 MHz)", lo |-> 300000, hi |-> 3000000, loIn |-> FALSE, hiIn |-> TRUE],
      [name |-> "SHF (3-30 GHz)", lo |-> 3000000, hi |-> 30000000, loIn |-> FALSE, hiIn |-> TRUE] }

\* Frequency f (in units of 100 Hz, ten to the kHz) lies in band b.
InBand(f, b) ==
    /\ IF b.loIn THEN f >= 10 * b.lo ELSE f > 10 * b.lo
    /\ IF b.hiIn THEN f <= 10 * b.hi ELSE f < 10 * b.hi

\* C20: getFrequencyBand maps every frequency to exactly one result by the
\* ranges [0.001, 0.01) VLF, [0.01, 0.1) LF, [0.1, 3) MF, [3, 30] HF,
\* (30, 300] VHF, (300, 3000] UHF, (3000, 30000] SHF; every other frequency
\* maps to "Unknown Band"; 146 MHz maps to "VHF (30-300 MHz)".
C20_BandByRange ==
    LET bands == { b \in Bands : InBand(frequencyMHz_, b) }
    IN  /\ Cardinality(bands) <= 1
        /\ \A b \in bands : getFrequencyBand = b.name
        /\ bands = {} => getFrequencyBand = "Unknown Band"
        /\ frequencyMHz_ = 146 * MHz => getFrequencyBand = "VHF (30-300 MHz)"

\* 30 MHz, the limit HF and VHF share, was set and maps to HF.
C20_Witness ==
    /\ frequencyMHz_ = 30 * MHz
    /\ getFrequencyBand = "HF (3-30 MHz)"

\* ------------------------------------------- claims on GroundModeler

\* The parameters are outside the ranges of validateGroundParameters.
OutOfRange(params) ==
    \/ params.conductivity[1] < 0
    \/ ~AtMostPow10(params.conductivity, 8)
    \/ ~AtLeastPow10(params.relativePermittivity, 0)
    \/ ~AtMostPow10(params.relativePermittivity, 2)
    \/ params.type = "FINITE_GROUND_SCREEN" /\ params.screenRadius[1] <= 0

CommentOnly(text) ==
    /\ Len(text) = 1
    /\ text[1].directive = "CM"
    /\ text[1].reason # ""

GeneratedGround ==
    groundCall.op \in {"generateGroundCommand", "generateGroundCommandWater"}

\* C21: both overloads of generateGroundCommand return "GN -1" for perfect
\* ground, one comment line and no GN or GD line for parameters of another
\* type that are out of range, and a text that starts with a GN line
\* otherwise.
C21_InvalidGroundIsCommentOnly ==
    GeneratedGround =>
        IF groundCall.params.type = "PERFECT_GROUND"
        THEN groundCall.text = generatePerfectGround
        ELSE IF OutOfRange(groundCall.params)
        THEN CommentOnly(groundCall.text)
        ELSE groundCall.text # << >> /\ groundCall.text[1].directive = "GN"

\* The values a GN line carries.
CarriedBy(text) ==
    [conductivity |-> ValueOf(text[1].conductivity),
     relativePermittivity |-> ValueOf(text[1].permittivity)]

\* The values of the water, as a directive with three significant digits and
\* one decimal can carry them.
Renderable(water) ==
    /\ ValueOf(formatGroundConductivity(water.conductivity)) = StripZeros(water.conductivity)
    /\ ValueOf(formatGroundPermittivity(water.relativePermittivity)) =
           StripZeros(water.relativePermittivity)

WaterOverride ==
    /\ groundCall.params.type = "WATER_GROUND"
    /\ ~groundCall.water.null

\* C22: for water ground with a water override the parameters returned and
\* the directive generated carry the conductivity and the permittivity of the
\* override; without one, and for every other type, they are the defaults of
\* the type.
C22_WaterOverrideIsCarried ==
    /\ groundCall.op = "getGroundParameters" =>
          IF WaterOverride
          THEN /\ groundCall.ret.conductivity = groundCall.water.conductivity
               /\ groundCall.ret.relativePermittivity =
                      groundCall.water.relativePermittivity
          ELSE groundCall.ret = getGroundParameters(groundCall.params.type)
    /\ (groundCall.op = "generateGroundCommandWater" /\ WaterOverride
            /\ Renderable(groundCall.water)) =>
          /\ groundCall.text[1].directive = "GN"
          /\ CarriedBy(groundCall.text).conductivity =
                 StripZeros(groundCall.water.conductivity)
          /\ CarriedBy(groundCall.text).relativePermittivity =
                 StripZeros(groundCall.water.relativePermittivity)

\* ------------------------------------------- claims on the generators

SameCall(a, b) ==
    /\ a.op = b.op
    /\ a.params = b.params
    /\ a.water = b.water
    /\ a.triangles = b.triangles
    /\ a.frequencyMHz = b.frequencyMHz
    /\ a.hasAntenna = b.hasAntenna

Logged(entries) == { i \in DOMAIN mainLog : mainLog[i] \in entries }

LoadCalls == Logged({"loadFile: true", "loadFile: false"})

AfterLoadCalls ==
    Logged({"scaleToLength", "detectAntenna", "generateNEC", "generateNECStructureOnly",
            "write NEC", "generateEZ", "generateEZStructureOnly", "write EZ"})

\* C24: a run calls loadFile once and never again; when it returned false
\* nothing is detected, generated or written and main returns 1; a document
\* is generated or written only after loadFile returned true.
C24_LoadFailureAbandonsRun ==
    /\ Cardinality(LoadCalls) <= 1
    /\ mainPc \in {"scale", "frequency", "detect", "nec", "ez", "done"} =>
           Cardinality(LoadCalls) = 1
    /\ Logged({"loadFile: false"}) # {} =>
           /\ mainLog = << "loadFile: false" >>
           /\ ~detectArg.called
           /\ necContent = NoDocument /\ ezContent = NoDocument
           /\ mainPc = "done" /\ exitStatus = "1"
    /\ AfterLoadCalls # {} => mainLog[1] = "loadFile: true"
    /\ (necContent # NoDocument \/ ezContent # NoDocument) => loadRet = "true"

\* The run of a file that fails to load has ended.
C24_Witness ==
    /\ mainLog = << "loadFile: false" >>
    /\ loadRet = "false"
    /\ exitStatus = "1"

\* C25: at an input frequency of 0 both documents come from the
\* structure-only entry points and generateNEC and generateEZ are not called,
\* whatever the detection setting and the confirmation; the two documents of
\* a run come from the same decision.
C25_NoAntennaAtFrequencyZero ==
    /\ (mainPc # "input" /\ input.frequencyMHz = 0) =>
           Logged({"generateNEC", "generateEZ"}) = {}
    /\ exitStatus = "0" =>
           /\ Logged({"generateNEC"}) # {} <=> Logged({"generateEZ"}) # {}
           /\ Logged({"generateNECStructureOnly"}) # {} <=>
                  Logged({"generateEZStructureOnly"}) # {}
           /\ necContent.antenna = ezContent.antenna

\* A run at frequency 0 with detection enabled and the question of
\* getAntennaConfirmation answered with yes has produced both documents.
C25_Witness ==
    /\ exitStatus = "0"
    /\ input.frequencyMHz = 0
    /\ input.enableAntennaDetection
    /\ hasAntenna
    /\ detectArg.called
    /\ Logged({"generateNECStructureOnly"}) # {}
    /\ Logged({"generateEZStructureOnly"}) # {}

\* -------------------------------------- claims on MemoryManager's peak

\* C26: the peak that getPeakMemoryUsage() and MemoryStats.peakUsage give is
\* at least every value getCurrentMemoryUsage() has returned since
\* construction or the last resetPeakMemoryUsage().
C26_PeakIsAtLeastEveryUsage ==
    /\ peakMemoryUsage_ >= reported
    /\ memRet.op = "getMemoryStats" => memRet.peak >= memRet.usage

\* ------------------------- claims on the results of AntennaDetector

DefaultParameters(a) ==
    /\ a.maxWireDiameter = DefaultMaxWireDiameter
    /\ a.minWireLength = DefaultMinWireLength
    /\ a.maxWireLength = DefaultMaxWireLength

\* C27: every triangle is a component of its own, whose path is one point
\* and has length 0; a detection only succeeds at a minimum wire length of
\* 0 or less, and never with the parameters of the constructor.
C27_NothingDetectedAboveZeroMinimum ==
    detectArg.called =>
        /\ Len(findWireLikeComponents(detectArg.triangles)) = Len(detectArg.triangles)
        /\ \A i \in 1 .. Len(detectArg.triangles) :
               LET component == findWireLikeComponents(detectArg.triangles)[i]
               IN  /\ component = << detectArg.triangles[i] >>
                   /\ Len(extractWirePath(component)) = 1
                   /\ calculateWireLength(extractWirePath(component)) = 0
        /\ antenna_.isDetected => detectArg.minWireLength <= 0
        /\ DefaultParameters(detectArg) => ~antenna_.isDetected

\* A detection with the parameters of the constructor found nothing in a
\* mesh with a triangle that is wire-like and of an accepted radius.
C27_Witness ==
    /\ detectArg.called
    /\ DefaultParameters(detectArg)
    /\ \E i \in 1 .. Len(detectArg.triangles) :
           /\ isWireLikeComponent(<< detectArg.triangles[i] >>, DefaultMaxWireDiameter)
           /\ isReasonableAntennaRadius(calculateWireRadius(<< detectArg.triangles[i] >>))
    /\ ~antenna_.isDetected

StoredIsLastResult ==
    detectArg.called =>
        /\ antenna_.isDetected <=> Qualifying(detectArg) # {}
        /\ Qualifying(detectArg) = {} => antenna_ = NoAntenna
        /\ antenna_.isDetected =>
               antenna_.triangles[1] \in { detectArg.triangles[i] : i \in Qualifying(detectArg) }

\* C29: the stored wire is the result of the most recent detectAntenna
\* call: a call that accepts nothing leaves a wire that is not detected,
\* without triangles and path and with radius 0 and length 0, whatever the
\* call before it found, and the setters leave the stored wire as it is.
C29_StoredResultIsLastDetection ==
    /\ []StoredIsLastResult
    /\ [][detectArg' = detectArg => antenna_' = antenna_]_vars

\* A detection that accepted nothing followed one that had found a wire.
C29_Witness ==
    /\ detectArg.called
    /\ detectArg.before.isDetected
    /\ Qualifying(detectArg) = {}
    /\ antenna_ = NoAntenna

\* --------------------------------- claims on the simplified paths

\* r is path without some of its points, in the order of path.
IsSubsequence(r, path) ==
    \E K \in SUBSET (1 .. Len(path)) : r = Restrict(path, K, 1)

Simplified(r, path, tolerance) ==
    /\ IsSubsequence(r, path)
    /\ Len(r) <= Len(path)
    /\ path # << >> =>
           /\ r # << >>
           /\ r[1] = path[1]
           /\ r[Len(r)] = path[Len(path)]

\* C28: simplifying a simplified path with the same tolerance changes
\* nothing, and a simplified path is the path without some of its points,
\* in order, from its first point to its last.
C28_SimplifyIsIdempotent ==
    geomCall.op = "simplify" =>
        /\ simplifyPath(geomCall.retDetector, geomCall.tolerance) = geomCall.retDetector
        /\ simplifyWirePath(geomCall.ret, geomCall.tolerance) = geomCall.ret
        /\ Simplified(geomCall.retDetector, geomCall.path, geomCall.tolerance)
        /\ Simplified(geomCall.ret, geomCall.path, geomCall.tolerance)

\* A path of four points lost a point and kept its last point, which lies
\* within the tolerance of the point kept before it.
C28_Witness ==
    /\ geomCall.op = "simplify"
    /\ Len(geomCall.path) = 4
    /\ Len(geomCall.retDetector) = 3
    /\ geomCall.tolerance > 0
    /\ ~DistanceAbove(geomCall.retDetector[3], geomCall.retDetector[2], geomCall.tolerance)
    /\ simplifyPath(geomCall.retDetector, geomCall.tolerance) = geomCall.retDetector

\* The state a loadFile call leaves, scaling calls since then aside: the
\* flag agrees with what the call returned, a loaded mesh is not empty, and
\* the parser holds as many triangles as the file named in the call.
LastLoadDecides ==
    loadRet # "none" =>
        /\ loaded_ <=> loadRet = "true"
        /\ loaded_ => triangles_ # << >>
        /\ Len(triangles_) = loadArg.count

\* Under any sequence of loadFile calls the parser holds what the last call
\* parsed from the file it named, and nothing when that file held nothing.
LastFileOnly ==
    loadRet # "none" =>
        /\ loaded_ <=> loadRet = "true"
        /\ loaded_ => triangles_ # << >>
        /\ triangles_ \in { o.tris : o \in LoadOutcomes(loadArg) }

\* A load has returned true and no scaling call was made since.
FreshlyLoaded == loadRet = "true" /\ scaleCall = NoScaleCall

====
